---------------------------- MODULE Spec2Model ----------------------------
(***************************************************************************)
(* State-machine model of chittycloude-mcp: the input validation and      *)
(* sanitization helpers, the sliding-window RateLimiter, the platform     *)
(* adapters (TypeScript adapters under src/platforms and the adapters of  *)
(* the security-hardened server), the tool handlers of the two servers    *)
(* (the index server and the security-hardened server), and the           *)
(* ChittyIDClient.                                                        *)
(*                                                                         *)
(* Strings are sequences of one-character strings.  Message texts are     *)
(* sequences of text pieces (template literals keep their pieces).        *)
(***************************************************************************)
EXTENDS Integers, Sequences, FiniteSets, TLC

VARIABLES
    input,        \* validation harness: the raw value handed to validateAndSanitize
    result,       \* validation harness: what validateAndSanitize returned
    now,          \* Date.now()
    maxRequests,  \* RateLimiter.maxRequests
    windowMs,     \* RateLimiter.windowMs
    requests,     \* RateLimiter.requests : Map clientId -> timestamps
    admitted,     \* history of the run: per client, the times of all admitted calls
    last,         \* history of the run: the last isAllowed call and its outcome
    entry,        \* which program runs: the adapter classes used directly,
                  \* the index server or the security-hardened server
    adapters,     \* the TypeScript adapters (platformAdapters of the index server)
    secure,       \* the adapters of the security-hardened server
    authStore,    \* authStore of the index server
    call,         \* history of the run: the last adapter or tool call and its outcome
    flights,      \* the getTeamDeployments calls in progress on the adapters
    client        \* the ChittyIDClient: currentUser and authToken

vars == <<input, result, now, maxRequests, windowMs, requests, admitted, last,
          entry, adapters, secure, authStore, call, flights, client>>

validateVars == <<input, result>>
limiterVars == <<maxRequests, windowMs, requests, admitted, last>>
serverVars == <<entry, adapters, secure, authStore, call, flights, client>>

-----------------------------------------------------------------------------
(* Bounds of the model *)

\* longest short input string enumerated
MaxLen == 3
\* longest prefix / suffix around a long input string
MaxPad == 1
\* the clock stops advancing here
MaxClock == 2
\* largest single advance of the clock
MaxStep == 2
\* largest RateLimiter maxRequests explored
MaxN == 2
\* largest RateLimiter windowMs explored
MaxW == 2
\* longest deployment listing a provider answers with
MaxListed == 1
\* largest creation time a provider reports
MaxStamp == 1

-----------------------------------------------------------------------------
(* Characters and strings *)

NameChars == {"a", "Z", "0", "-", "_"}
AngleChars == {"<", ">"}
QuoteChars == {"'", "\""}
SlashChars == {"\\", "/"}
ControlChars == {"\r", "\n", "\t"}
SpaceChars == {" "}
OtherChars == {"!"}

Chars == NameChars \cup AngleChars \cup QuoteChars \cup SlashChars
            \cup ControlChars \cup SpaceChars \cup OtherChars

Undefined == <<"<undefined>">>

IsString(v) == v # Undefined

Rep(c, n) == [i \in 1..n |-> c]

StringsUpTo(n) == UNION {[1..k -> Chars] : k \in 0..n}

\* String.prototype.replace(/[set]/g, '')
RemoveChars(s, set) == SelectSeq(s, LAMBDA c : c \notin set)

RECURSIVE TrimStart(_)
TrimStart(s) ==
    IF s # <<>> /\ Head(s) \in (SpaceChars \cup ControlChars)
    THEN TrimStart(Tail(s))
    ELSE s

RECURSIVE TrimEnd(_)
TrimEnd(s) ==
    IF s # <<>> /\ s[Len(s)] \in (SpaceChars \cup ControlChars)
    THEN TrimEnd(SubSeq(s, 1, Len(s) - 1))
    ELSE s

\* String.prototype.trim()
Trim(s) == TrimEnd(TrimStart(s))

-----------------------------------------------------------------------------
(* Validation & sanitization (security-hardened server) *)

\* a sanitizer whose character classes also take the hyphen
MaxNameLen == 100
sanitizeInputStripsHyphen(v) ==
    IF IsString(v)
    THEN Trim(RemoveChars(v, AngleChars \cup QuoteChars \cup SlashChars
                               \cup ControlChars \cup {"-"}))
    ELSE v

sanitizeInput(v) ==
    IF IsString(v)
    THEN Trim(RemoveChars(RemoveChars(RemoveChars(RemoveChars(v,
             AngleChars), QuoteChars), SlashChars), ControlChars))
    ELSE v

\* the schema without its .max(100) check
ProjectNameIssuesNoMax(s) ==
    (IF Len(s) < 1 THEN <<"Project name cannot be empty">> ELSE <<>>)
    \o (IF s = <<>> \/ \E i \in 1..Len(s) : s[i] \notin NameChars
        THEN <<"Project name can only contain letters, numbers, hyphens, and underscores">>
        ELSE <<>>)

\* zod: the issues of ProjectNameSchema.parse(s), in the order of the checks
ProjectNameIssues(s) ==
    (IF Len(s) < 1 THEN <<"Project name cannot be empty">> ELSE <<>>)
    \o (IF Len(s) > MaxNameLen THEN <<"Project name too long">> ELSE <<>>)
    \o (IF s = <<>> \/ \E i \in 1..Len(s) : s[i] \notin NameChars
        THEN <<"Project name can only contain letters, numbers, hyphens, and underscores">>
        ELSE <<>>)

ProjectNameSchema(v) ==
    IF ~IsString(v) THEN <<"Required">> ELSE ProjectNameIssues(v)

\* zod: the issues of CredentialsSchema.parse(object), every value z.string().min(1)
CredentialsSchema(object) ==
    IF \E k \in DOMAIN object : Len(object[k]) < 1
    THEN <<"Credential values cannot be empty">>
    ELSE <<>>

\* schema.parse(value): the issues zod reports, none when it accepts
parse(schema, value) ==
    IF schema = "CredentialsSchema" THEN CredentialsSchema(value)
    ELSE ProjectNameSchema(value)

validateAndSanitize(schema, data, fieldName) ==
    LET sanitized == sanitizeInput(data)
        issues == parse(schema, sanitized)
    IN  IF issues = <<>>
        THEN [success |-> TRUE, data |-> sanitized]
        ELSE [success |-> FALSE, error |-> <<"Invalid ", fieldName, ": ", issues[1]>>]

-----------------------------------------------------------------------------
(* Validation harness: the inputs, and one action applying the function *)

NoResult == [success |-> FALSE, error |-> <<>>]

Pads == StringsUpTo(MaxPad)

LongInputs ==
    {p \o Rep("a", n) \o q : p \in Pads, q \in Pads,
                              n \in (MaxNameLen - 1)..(MaxNameLen + 1)}

Inputs == StringsUpTo(MaxLen) \cup LongInputs

InitValidate ==
    /\ input \in Inputs
    /\ result = NoResult
    /\ now = 0
    /\ maxRequests = 1
    /\ windowMs = 1
    /\ requests = <<>>
    /\ admitted = <<>>
    /\ last = [client |-> "", time |-> 0, allowed |-> TRUE, before |-> <<>>]
    /\ entry = "validation"
    /\ adapters = <<>>
    /\ secure = <<>>
    /\ authStore = <<>>
    /\ flights = <<>>
    /\ client = <<>>
    /\ call = <<>>

ValidateProjectName ==
    /\ result = NoResult
    /\ result' = validateAndSanitize("ProjectNameSchema", input, "project name")
    /\ UNCHANGED <<input, now, limiterVars, serverVars>>

NextValidate == ValidateProjectName

SpecValidate == InitValidate /\ [][NextValidate]_vars

-----------------------------------------------------------------------------
(* Rate limiter *)

Clients == {"default", "other"}

NoCall == [client |-> "", time |-> 0, allowed |-> TRUE, before |-> <<>>]

\* Map.get(k) || []
GetOrEmpty(map, k) == IF k \in DOMAIN map THEN map[k] ELSE <<>>

\* Map.set(k, v)
MapSet(map, k, v) == [x \in DOMAIN map \cup {k} |-> IF x = k THEN v ELSE map[x]]

\* a filter that keeps the request made exactly windowMs ago
validRequestsInclusive(clientRequests, t) ==
    SelectSeq(clientRequests, LAMBDA time : t - time <= windowMs)

\* clientRequests.filter(time => now - time < this.windowMs)
validRequests(clientRequests, t) ==
    SelectSeq(clientRequests, LAMBDA time : t - time < windowMs)

\* the value isAllowed(clientId) returns at the current clock value
\* (variant: a full history still admits one more call)
isAllowedResultOffByOne(clientId) ==
    Len(validRequests(GetOrEmpty(requests, clientId), now)) <= maxRequests

isAllowedResult(clientId) ==
    Len(validRequests(GetOrEmpty(requests, clientId), now)) < maxRequests

\* (variant: the call is recorded whether it is admitted or not)
isAllowedRequestsRecordsRejected(clientId) ==
    MapSet(requests, clientId,
           Append(validRequests(GetOrEmpty(requests, clientId), now), now))

\* the Map after isAllowed(clientId) at the current clock value
isAllowedRequests(clientId) ==
    IF isAllowedResult(clientId)
    THEN MapSet(requests, clientId,
                Append(validRequests(GetOrEmpty(requests, clientId), now), now))
    ELSE requests

\* the run's history after isAllowed(clientId)
isAllowedAdmitted(clientId) ==
    IF isAllowedResult(clientId)
    THEN MapSet(admitted, clientId, Append(GetOrEmpty(admitted, clientId), now))
    ELSE admitted

isAllowed(clientId) ==
    /\ requests' = isAllowedRequests(clientId)
    /\ admitted' = isAllowedAdmitted(clientId)
    /\ last' = [client |-> clientId, time |-> now,
                allowed |-> isAllowedResult(clientId),
                before |-> GetOrEmpty(requests, clientId)]

\* the clock advances (never backwards), up to MaxClock
Tick ==
    /\ now < MaxClock
    /\ \E d \in 1..MaxStep : now + d <= MaxClock /\ now' = now + d

InitLimiter ==
    /\ input = <<>>
    /\ result = NoResult
    /\ now = 0
    /\ maxRequests \in 1..MaxN
    /\ windowMs \in 1..MaxW
    /\ requests = <<>>
    /\ admitted = <<>>
    /\ last = NoCall
    /\ entry = "limiter"
    /\ adapters = <<>>
    /\ secure = <<>>
    /\ authStore = <<>>
    /\ flights = <<>>
    /\ client = <<>>
    /\ call = <<>>

LimiterCall ==
    /\ \E clientId \in Clients : isAllowed(clientId)
    /\ UNCHANGED <<validateVars, now, maxRequests, windowMs, serverVars>>

LimiterTick ==
    /\ Tick
    /\ UNCHANGED <<validateVars, limiterVars, serverVars>>

NextLimiter == LimiterCall \/ LimiterTick

SpecLimiter == InitLimiter /\ [][NextLimiter]_vars

-----------------------------------------------------------------------------
(* Provider transport and adapter results *)

Platforms == {"cloudflare", "vercel", "railway"}

\* `${error}` of an Error object
ErrorToString(message) == <<"Error: ">> \o message

\* the message of the error a failed provider request raises
ProviderError == <<"Request failed">>

\* `${v}` of a string or undefined
Show(v) == IF v = Undefined THEN <<"undefined">> ELSE v

\* the message of the error a failed verification request raises: the
\* provider's text, which may quote the Authorization header it was sent
FailureMessage(answer, token) ==
    IF answer = "echoed"
    THEN <<"Request failed, headers: Authorization: Bearer ">> \o Show(token)
    ELSE ProviderError

\* JavaScript truthiness of a string or undefined
Truthy(v) == v # Undefined /\ v # <<>>

NoValue == [kind |-> "none"]

\* what an adapter method did: the adapter afterwards, whether it threw,
\* what it returned or the message it threw, the provider requests it issued
Out(a, threw, value, error, reqs) ==
    [adapter |-> a, threw |-> threw, value |-> value, error |-> error,
     requests |-> reqs]

Returned(a, value, reqs) == Out(a, FALSE, value, <<>>, reqs)
Threw(a, error, reqs) == Out(a, TRUE, NoValue, error, reqs)

\* a request as it leaves the adapter's axios instance: the request
\* interceptor adds the Authorization header when apiToken is set and (Vercel)
\* the teamId parameter when teamId is set
Request(a, method, endpoint, name) ==
    [platform |-> a.platform, method |-> method, endpoint |-> endpoint,
     account |-> a.accountId, name |-> name,
     auth |-> IF Truthy(a.apiToken) THEN a.apiToken ELSE Undefined,
     teamId |-> IF a.platform = "vercel" /\ Truthy(a.teamId) THEN a.teamId ELSE Undefined]

DeploymentResult(platform, deploymentId, url, status, timestamp) ==
    [kind |-> "deployment", platform |-> platform, deploymentId |-> deploymentId,
     url |-> url, status |-> status, timestamp |-> timestamp]

BoolValue(b) == [kind |-> "boolean", b |-> b]

\* provider-assigned identifiers and host names
ProviderDeploymentId == <<"d", "p", "l">>
ProviderUrl == <<"h", "o", "s", "t">>

-----------------------------------------------------------------------------
(* TypeScript adapters: authenticate / isAuthenticated *)

NewAdapter(platform) ==
    [platform |-> platform, apiToken |-> <<>>, accountId |-> <<>>,
     teamId |-> <<>>, authenticated |-> FALSE]

CredentialField(credentials, k) ==
    IF k \in DOMAIN credentials THEN credentials[k] ELSE Undefined

isAuthenticated(a) ==
    CASE a.platform = "cloudflare" ->
            a.authenticated /\ Truthy(a.apiToken) /\ Truthy(a.accountId)
      [] OTHER -> a.authenticated /\ Truthy(a.apiToken)

AdapterTitle(platform) ==
    CASE platform = "cloudflare" -> "Cloudflare"
      [] platform = "vercel" -> "Vercel"
      [] OTHER -> "Railway"

\* the credential fields authenticate() stores before the provider call
StoreCredentials(a, credentials) ==
    CASE a.platform = "cloudflare" ->
            [a EXCEPT !.apiToken = CredentialField(credentials, "apiToken"),
                      !.accountId = CredentialField(credentials, "accountId")]
      [] a.platform = "vercel" ->
            [a EXCEPT !.apiToken = CredentialField(credentials, "apiToken"),
                      !.teamId = IF Truthy(CredentialField(credentials, "teamId"))
                                 THEN CredentialField(credentials, "teamId")
                                 ELSE <<>>]
      [] OTHER ->
            [a EXCEPT !.apiToken = CredentialField(credentials, "apiToken")]

AuthRequest(a) ==
    CASE a.platform = "cloudflare" -> Request(a, "GET", "/accounts/:accountId", <<>>)
      [] a.platform = "vercel" -> Request(a, "GET", "/v2/user", <<>>)
      [] OTHER -> Request(a, "POST", "query me", <<>>)

\* what the provider answers to the verification request
AuthAnswers == {"confirmed", "unconfirmed", "failed"}

\* an authenticate whose catch branch rethrows without clearing the flag
authenticateKeepsFlag(a, credentials, answer) ==
    LET stored == StoreCredentials(a, credentials)
    IN  CASE answer \in {"failed", "echoed"} ->
                Threw(stored,
                      <<AdapterTitle(a.platform), " authentication failed: ">>
                          \o ErrorToString(FailureMessage(answer, AuthRequest(stored).auth)),
                      <<AuthRequest(stored)>>)
          [] answer = "confirmed" ->
                Returned([stored EXCEPT !.authenticated = TRUE], BoolValue(TRUE),
                         <<AuthRequest(stored)>>)
          [] OTHER ->
                Returned(stored, BoolValue(FALSE),
                         <<AuthRequest(stored)>>)

authenticate(a, credentials, answer) ==
    LET stored == StoreCredentials(a, credentials)
    IN  CASE answer \in {"failed", "echoed"} ->
                Threw([stored EXCEPT !.authenticated = FALSE],
                      <<AdapterTitle(a.platform), " authentication failed: ">>
                          \o ErrorToString(FailureMessage(answer, AuthRequest(stored).auth)),
                      <<AuthRequest(stored)>>)
          [] answer = "confirmed" ->
                Returned([stored EXCEPT !.authenticated = TRUE], BoolValue(TRUE),
                         <<AuthRequest(stored)>>)
          [] OTHER ->
                Returned(stored, BoolValue(FALSE),
                         <<AuthRequest(stored)>>)

-----------------------------------------------------------------------------
(* TypeScript adapters: deploy *)

Min(x, y) == IF x < y THEN x ELSE y

\* String.prototype.slice(0, n)
Slice(str, n) == SubSeq(str, 1, Min(n, Len(str)))

\* String.prototype.toLowerCase(), on the characters of the model
LowerChar(c) == IF c = "Z" THEN "z" ELSE c

\* name.toLowerCase().replace(/[^a-z0-9-]/g, '-')
Subdomain(name) ==
    [i \in DOMAIN name |->
        IF LowerChar(name[i]) \in {"a", "z", "0", "-"} THEN LowerChar(name[i]) ELSE "-"]

AccountPrefixLen == 8

\* (variant: the whole account id in the host name)
WorkerUrlWholeAccount(name, accountId) ==
    <<"https://">> \o Subdomain(name) \o <<".">> \o accountId \o <<".workers.dev">>

WorkerUrl(name, accountId) ==
    <<"https://">> \o Subdomain(name) \o <<".">>
        \o Slice(accountId, AccountPrefixLen) \o <<".workers.dev">>

\* CloudflareAdapter.deployWorker; ok[i] tells whether the i-th request succeeds
deployWorker(a, config, ok) ==
    LET put == Request(a, "PUT", "/accounts/:accountId/workers/scripts/:name",
                       config.projectName)
    IN  IF ok[1]
        THEN Returned(a, DeploymentResult("cloudflare",
                            Show(config.projectName) \o <<"-", ToString(now)>>,
                            WorkerUrl(config.projectName, a.accountId), "ready", now),
                      <<put>>)
        ELSE Threw(a, ProviderError, <<put>>)

\* CloudflareAdapter.getOrCreatePagesProject: value is the project's name
getOrCreatePagesProject(a, projectName, ok) ==
    LET get == Request(a, "GET", "/accounts/:accountId/pages/projects/:name", projectName)
        create == Request(a, "POST", "/accounts/:accountId/pages/projects", projectName)
    IN  IF ok[1] THEN Returned(a, projectName, <<get>>)
        ELSE IF ok[2] THEN Returned(a, projectName, <<get, create>>)
        ELSE Threw(a, ProviderError, <<get, create>>)

\* CloudflareAdapter.deployPages
deployPages(a, config, ok) ==
    LET project == getOrCreatePagesProject(a, config.projectName, ok)
        n == Len(project.requests)
        post == Request(a, "POST",
                        "/accounts/:accountId/pages/projects/:name/deployments",
                        project.value)
    IN  IF project.threw THEN project
        ELSE IF ok[n + 1]
        THEN Returned(a, DeploymentResult("cloudflare", ProviderDeploymentId,
                                          ProviderUrl, "building", now),
                      Append(project.requests, post))
        ELSE Threw(a, ProviderError, Append(project.requests, post))

CloudflareDeploy(a, config, ok) ==
    IF ~isAuthenticated(a)
    THEN Threw(a, <<"Not authenticated with Cloudflare">>, <<>>)
    ELSE LET r == IF Truthy(config.buildCommand) \/ Truthy(config.outputDirectory)
                  THEN deployPages(a, config, ok)
                  ELSE deployWorker(a, config, ok)
         IN  IF r.threw
             THEN Threw(a, <<"Cloudflare deployment failed: ">> \o ErrorToString(r.error),
                        r.requests)
             ELSE r

VercelDeploy(a, config, ok) ==
    LET post == Request(a, "POST", "/v13/deployments", config.projectName)
    IN  IF ~isAuthenticated(a)
        THEN Threw(a, <<"Not authenticated with Vercel">>, <<>>)
        ELSE IF ok[1]
        THEN Returned(a, DeploymentResult("vercel", ProviderDeploymentId,
                                          <<"https://">> \o ProviderUrl, "building", now),
                      <<post>>)
        ELSE Threw(a, <<"Vercel deployment failed: ">> \o ErrorToString(ProviderError),
                   <<post>>)

\* RailwayAdapter.getOrCreateProject; exists: the provider lists a project of that name
getOrCreateProject(a, name, ok, exists) ==
    LET find == Request(a, "POST", "query projects", <<>>)
        create == Request(a, "POST", "mutation projectCreate", name)
        failed == <<"Failed to get/create project: ">> \o ErrorToString(ProviderError)
    IN  IF ~ok[1] THEN Threw(a, failed, <<find>>)
        ELSE IF exists THEN Returned(a, name, <<find>>)
        ELSE IF ok[2] THEN Returned(a, name, <<find, create>>)
        ELSE Threw(a, failed, <<find, create>>)

\* RailwayAdapter.deploy with createService and deployService
RailwayDeploy(a, config, ok, exists) ==
    LET project == getOrCreateProject(a, config.projectName, ok, exists)
        n == Len(project.requests)
        service == Request(a, "POST", "mutation serviceCreate", config.projectName)
        instance == Request(a, "POST", "mutation serviceInstanceDeploy", <<>>)
        wrap(e) == <<"Railway deployment failed: ">> \o ErrorToString(e)
    IN  IF ~isAuthenticated(a)
        THEN Threw(a, <<"Not authenticated with Railway">>, <<>>)
        ELSE IF project.threw
        THEN Threw(a, wrap(project.error), project.requests)
        ELSE IF ~ok[n + 1]
        THEN Threw(a, wrap(<<"Failed to create service: ">> \o ErrorToString(ProviderError)),
                   Append(project.requests, service))
        ELSE IF ~ok[n + 2]
        THEN Threw(a, wrap(<<"Failed to deploy service: ">> \o ErrorToString(ProviderError)),
                   project.requests \o <<service, instance>>)
        ELSE Returned(a, DeploymentResult("railway", ProviderDeploymentId,
                                          ProviderUrl, "building", now),
                      project.requests \o <<service, instance>>)

deploy(a, config, ok, exists) ==
    CASE a.platform = "cloudflare" -> CloudflareDeploy(a, config, ok)
      [] a.platform = "vercel" -> VercelDeploy(a, config, ok)
      [] OTHER -> RailwayDeploy(a, config, ok, exists)

-----------------------------------------------------------------------------
(* TypeScript adapters: getStatus / getDeployments *)

\* String.prototype.includes
Includes(str, sub) ==
    \E i \in 0..(Len(str) - Len(sub)) : SubSeq(str, i + 1, i + Len(sub)) = sub

VercelStates == {"QUEUED", "INITIALIZING", "BUILDING", "READY", "ERROR", "CANCELED"}
RailwayStates == {"INITIALIZING", "QUEUED", "BUILDING", "DEPLOYING", "SUCCESS",
                  "RUNNING", "FAILED", "CRASHED", "REMOVED"}
ProviderStates == VercelStates \cup RailwayStates \cup {"UNKNOWN"}

StatusEnum == {"pending", "building", "ready", "error", "canceled"}

mapVercelStatus(vercelStatus) ==
    CASE vercelStatus \in {"QUEUED", "INITIALIZING"} -> "pending"
      [] vercelStatus = "BUILDING" -> "building"
      [] vercelStatus = "READY" -> "ready"
      [] vercelStatus = "ERROR" -> "error"
      [] vercelStatus = "CANCELED" -> "canceled"
      [] OTHER -> "pending"

\* (variant: a status outside the list counts as an error)
mapRailwayStatusDefaultError(railwayStatus) ==
    CASE railwayStatus \in {"INITIALIZING", "QUEUED"} -> "pending"
      [] railwayStatus \in {"BUILDING", "DEPLOYING"} -> "building"
      [] railwayStatus \in {"SUCCESS", "RUNNING"} -> "ready"
      [] railwayStatus \in {"FAILED", "CRASHED"} -> "error"
      [] railwayStatus = "REMOVED" -> "canceled"
      [] OTHER -> "error"

mapRailwayStatus(railwayStatus) ==
    CASE railwayStatus \in {"INITIALIZING", "QUEUED"} -> "pending"
      [] railwayStatus \in {"BUILDING", "DEPLOYING"} -> "building"
      [] railwayStatus \in {"SUCCESS", "RUNNING"} -> "ready"
      [] railwayStatus \in {"FAILED", "CRASHED"} -> "error"
      [] railwayStatus = "REMOVED" -> "canceled"
      [] OTHER -> "pending"

\* what the provider knows: the ids of the scripts of the account, the state and
\* creation time of the deployment asked for
ScriptIds == {<<"a">>, <<"Z", "0">>}
Stamps == 0..MaxStamp
StatesOf(platform) ==
    CASE platform = "vercel" -> VercelStates \cup {"UNKNOWN"}
      [] platform = "railway" -> RailwayStates \cup {"UNKNOWN"}
      [] OTHER -> {"UNKNOWN"}
ProviderViews(platform) ==
    [scripts : IF platform = "cloudflare" THEN SUBSET ScriptIds ELSE {{}},
     state : StatesOf(platform),
     createdAt : {MaxStamp}]

CloudflareGetStatus(a, deploymentId, ok, view) ==
    LET get == Request(a, "GET", "/accounts/:accountId/workers/scripts", <<>>)
        exists == \E id \in view.scripts : Includes(deploymentId, id)
    IN  IF ok[1]
        THEN Returned(a, DeploymentResult("cloudflare", deploymentId, <<"https://worker.dev">>,
                                          IF exists THEN "ready" ELSE "error", now),
                      <<get>>)
        ELSE Threw(a, <<"Failed to get deployment status: ">> \o ErrorToString(ProviderError),
                   <<get>>)

VercelGetStatus(a, deploymentId, ok, view) ==
    LET get == Request(a, "GET", "/v13/deployments/:id", deploymentId)
    IN  IF ok[1]
        THEN Returned(a, DeploymentResult("vercel", deploymentId, <<"https://">> \o ProviderUrl,
                                          mapVercelStatus(view.state), view.createdAt),
                      <<get>>)
        ELSE Threw(a, <<"Failed to get deployment status: ">> \o ErrorToString(ProviderError),
                   <<get>>)

RailwayGetStatus(a, deploymentId, ok, view) ==
    LET post == Request(a, "POST", "query serviceInstance", deploymentId)
    IN  IF ok[1]
        THEN Returned(a, DeploymentResult("railway", deploymentId, ProviderUrl,
                                          mapRailwayStatus(view.state), view.createdAt),
                      <<post>>)
        ELSE Threw(a, <<"Failed to get deployment status: ">> \o ErrorToString(ProviderError),
                   <<post>>)

getStatus(a, deploymentId, ok, view) ==
    CASE a.platform = "cloudflare" -> CloudflareGetStatus(a, deploymentId, ok, view)
      [] a.platform = "vercel" -> VercelGetStatus(a, deploymentId, ok, view)
      [] OTHER -> RailwayGetStatus(a, deploymentId, ok, view)

\* a provider listing: the entries of a list response
\* (only the Cloudflare adapter looks at the creation time of a listed item)
ListedItems(platform) ==
    [id : {ProviderDeploymentId}, state : StatesOf(platform),
     createdAt : IF platform = "cloudflare" THEN Stamps ELSE {MaxStamp}]
Listings(platform) == UNION {[1..k -> ListedItems(platform)] : k \in 0..MaxListed}

ListValue(items) == [kind |-> "list", items |-> items]

\* workers and pages become deployments; created_on || new Date()
CloudflareGetDeployments(a, ok, workers, pages) ==
    LET getWorkers == Request(a, "GET", "/accounts/:accountId/workers/scripts", <<>>)
        getPages == Request(a, "GET", "/accounts/:accountId/pages/projects", <<>>)
        failed == <<"Failed to get deployments: ">> \o ErrorToString(ProviderError)
        convert(list, domain) ==
            [i \in DOMAIN list |->
                DeploymentResult("cloudflare", list[i].id,
                                 <<"https://">> \o list[i].id \o <<domain>>, "ready",
                                 IF list[i].createdAt # 0 THEN list[i].createdAt ELSE now)]
    IN  IF ~ok[1] THEN Threw(a, failed, <<getWorkers>>)
        ELSE IF ~ok[2] THEN Threw(a, failed, <<getWorkers, getPages>>)
        ELSE Returned(a, ListValue(convert(workers, ".workers.dev")
                                      \o convert(pages, ".pages.dev")),
                      <<getWorkers, getPages>>)

VercelGetDeployments(a, ok, listing) ==
    LET get == Request(a, "GET", "/v6/deployments", <<>>)
    IN  IF ok[1]
        THEN Returned(a, ListValue([i \in DOMAIN listing |->
                            DeploymentResult("vercel", listing[i].id,
                                             <<"https://">> \o ProviderUrl,
                                             mapVercelStatus(listing[i].state),
                                             listing[i].createdAt)]),
                      <<get>>)
        ELSE Threw(a, <<"Failed to get deployments: ">> \o ErrorToString(ProviderError),
                   <<get>>)

RailwayGetDeployments(a, ok, listing) ==
    LET post == Request(a, "POST", "query projects services instances", <<>>)
    IN  IF ok[1]
        THEN Returned(a, ListValue([i \in DOMAIN listing |->
                            DeploymentResult("railway", listing[i].id, ProviderUrl,
                                             mapRailwayStatus(listing[i].state),
                                             listing[i].createdAt)]),
                      <<post>>)
        ELSE Threw(a, <<"Failed to get deployments: ">> \o ErrorToString(ProviderError),
                   <<post>>)

getDeployments(a, ok, listing, pages) ==
    CASE a.platform = "cloudflare" -> CloudflareGetDeployments(a, ok, listing, pages)
      [] a.platform = "vercel" -> VercelGetDeployments(a, ok, listing)
      [] OTHER -> RailwayGetDeployments(a, ok, listing)

-----------------------------------------------------------------------------
(* TypeScript adapters: getCost / getAnalytics / shareWithTeam *)

\* a JavaScript number n / d (d > 0)
Number(n, d) == [kind |-> "number", n |-> n, d |-> d]
Zero == Number(0, 1)

\* a / b as the code guards it: `count > 0 ? sum / count : 0`
Quotient(sum, count) == IF count > 0 THEN Number(sum, count) ELSE Zero

Times(x, k) == IF x.n = 0 THEN Zero ELSE Number(x.n * k, x.d)

Max(a, b) == IF a > b THEN a ELSE b

\* what the provider's usage endpoint reports (bandwidth and network in whole
\* GiB, which the code divides out of the byte count)
UsageViews(platform) ==
    CASE platform = "vercel" -> [executions : {0, 102500}, bandwidthGiB : {0, 101}]
      [] platform = "railway" -> [cpu : {0, 1}, memory : {1}, networkGiB : {0, 1}]
      [] OTHER -> {<<>>}

\* dollars as a number of millionths
Dollars(millionths) == IF millionths = 0 THEN Zero ELSE Number(millionths, 1000000)

CloudflareGetCost(a) == Returned(a, Zero, <<>>)

\* $0.40 per million executions after the first 100k, $0.15 per GiB after the
\* first 100 GiB; a failed request is swallowed
VercelGetCost(a, ok, usage) ==
    LET get == Request(a, "GET", "/v1/usage", <<>>)
        executionCost == Max(0, ((usage.executions - 100000) * 4) \div 10)
        bandwidthCost == Max(0, (usage.bandwidthGiB - 100) * 150000)
    IN  IF ok THEN Returned(a, Dollars(executionCost + bandwidthCost), <<get>>)
        ELSE Returned(a, Zero, <<get>>)

\* $0.000463 per vCPU second, $0.000231 per GB second, $0.10 per GiB
RailwayGetCost(a, deploymentId, ok, usage) ==
    LET post == Request(a, "POST", "query serviceInstance usage", deploymentId)
        cpuCost == usage.cpu * 463
        memoryCost == usage.memory * 231
        networkCost == usage.networkGiB * 100000
    IN  IF ok THEN Returned(a, Dollars(cpuCost + memoryCost + networkCost), <<post>>)
        ELSE Returned(a, Zero, <<post>>)

getCost(a, deploymentId, ok, usage) ==
    CASE a.platform = "cloudflare" -> CloudflareGetCost(a)
      [] a.platform = "vercel" -> VercelGetCost(a, ok, usage)
      [] OTHER -> RailwayGetCost(a, deploymentId, ok, usage)

PlatformAnalytics(platform, projectName, total, successRate, averageBuildTime, totalCost, performanceScore, lastDeployment) ==
    [kind |-> "analytics", platform |-> platform, projectName |-> projectName,
     totalDeployments |-> total, successRate |-> successRate,
     averageBuildTime |-> averageBuildTime, totalCost |-> totalCost,
     performanceScore |-> performanceScore, lastDeployment |-> lastDeployment]

\* lastDeployment: undefined
NoStamp == -1

\* the record of the catch blocks: every figure 0, no lastDeployment
ZeroAnalytics(platform, projectName) ==
    PlatformAnalytics(platform, projectName, 0, Zero, Zero, Zero, Zero, NoStamp)

\* placeholder figures, no provider request
CloudflareGetAnalytics(a, projectName) ==
    Returned(a, PlatformAnalytics("cloudflare", projectName, 1, Number(99, 100),
                                  Number(5000, 1), Zero, Number(95, 1), NoStamp),
             <<>>)

\* the deployments of a project as /v6/deployments lists them for the analytics
\* (ready = 0: the deployment has not finished building)
VercelProjectItems ==
    [state : {"READY", "ERROR"}, createdAt : {MaxStamp}, buildingAt : {1}, ready : {0, 3}]
VercelProjectListings == UNION {[1..k -> VercelProjectItems] : k \in 0..MaxListed}

RECURSIVE Sum(_)
Sum(s) == IF s = <<>> THEN 0 ELSE Head(s) + Sum(Tail(s))

VercelGetAnalytics(a, projectName, ok, deployments, usage) ==
    LET get == Request(a, "GET", "/v6/deployments", projectName)
        total == Len(deployments)
        successful == Len(SelectSeq(deployments, LAMBDA d : d.state = "READY"))
        successRate == Quotient(successful, total)
        built == SelectSeq(deployments, LAMBDA d : d.buildingAt # 0 /\ d.ready # 0)
        buildTimes == [i \in DOMAIN built |-> built[i].ready - built[i].buildingAt]
        cost == VercelGetCost(a, ok[2], usage)
    IN  IF ok[1]
        THEN Returned(a, PlatformAnalytics("vercel", projectName, total, successRate,
                                           Quotient(Sum(buildTimes), Len(buildTimes)),
                                           cost.value, Times(successRate, 100),
                                           IF total > 0 THEN deployments[1].createdAt
                                           ELSE NoStamp),
                      <<get>> \o cost.requests)
        ELSE Returned(a, ZeroAnalytics("vercel", projectName), <<get>>)

\* getDeployments never sets buildTime, so no build time is averaged
RailwayGetAnalytics(a, projectName, ok, listing, usage) ==
    LET listed == RailwayGetDeployments(a, ok, listing)
        projectDeployments ==
            SelectSeq(listed.value.items, LAMBDA d : Includes(d.deploymentId, projectName))
        total == Len(projectDeployments)
        successful == Len(SelectSeq(projectDeployments, LAMBDA d : d.status = "ready"))
        successRate == Quotient(successful, total)
        cost == RailwayGetCost(a, IF total > 0 THEN projectDeployments[1].deploymentId
                                  ELSE <<>>, ok[2], usage)
    IN  IF listed.threw
        THEN Returned(a, ZeroAnalytics("railway", projectName), listed.requests)
        ELSE Returned(a, PlatformAnalytics("railway", projectName, total, successRate,
                                           Zero, cost.value, Times(successRate, 90),
                                           IF total > 0 THEN projectDeployments[1].timestamp
                                           ELSE NoStamp),
                      listed.requests \o cost.requests)

getAnalytics(a, projectName, ok, listing, usage) ==
    CASE a.platform = "cloudflare" -> CloudflareGetAnalytics(a, projectName)
      [] a.platform = "vercel" -> VercelGetAnalytics(a, projectName, ok, listing, usage)
      [] OTHER -> RailwayGetAnalytics(a, projectName, ok, listing, usage)

\* Cloudflare and Vercel only log; Railway posts an invitation and rethrows
shareWithTeam(a, deploymentId, teamId, ok) ==
    LET post == Request(a, "POST", "mutation projectInvite", teamId)
    IN  CASE a.platform \in {"cloudflare", "vercel"} -> Returned(a, NoValue, <<>>)
          [] ok -> Returned(a, NoValue, <<post>>)
          [] OTHER -> Threw(a, <<"Failed to share with team: ">>
                                   \o ErrorToString(ProviderError), <<post>>)

-----------------------------------------------------------------------------
(* Adapters of the security-hardened server *)

SecurePlatforms == {"cloudflare", "vercel"}

Null == <<"<null>">>

\* api is Null until authenticate creates the axios instance; the instance
\* carries the Authorization header it was created with
NewSecureAdapter(platform) ==
    [platform |-> platform, api |-> Null, apiToken |-> <<>>, accountId |-> <<>>,
     authenticated |-> FALSE]

\* validateAndSanitize on an object: every value is sanitized, then the
\* object is validated
validateAndSanitizeObject(schema, data, fieldName) ==
    LET sanitized == [k \in DOMAIN data |-> sanitizeInput(data[k])]
        issues == parse(schema, sanitized)
    IN  IF issues = <<>>
        THEN [success |-> TRUE, data |-> sanitized]
        ELSE [success |-> FALSE, error |-> <<"Invalid ", fieldName, ": ", issues[1]>>]

SecureRequest(a, method, endpoint, name) ==
    [platform |-> a.platform, method |-> method, endpoint |-> endpoint,
     account |-> a.accountId, name |-> name, auth |-> a.api, teamId |-> Undefined]

NullApiError == <<"Cannot read properties of null">>

SecureRequiredMissing(platform, data) ==
    IF platform = "cloudflare"
    THEN ~Truthy(CredentialField(data, "apiToken")) \/ ~Truthy(CredentialField(data, "accountId"))
    ELSE ~Truthy(CredentialField(data, "apiToken"))

SecureRequiredMessage(platform) ==
    IF platform = "cloudflare"
    THEN <<"Cloudflare requires apiToken and accountId">>
    ELSE <<"Vercel requires apiToken">>

\* an authenticate that stores the fields but creates no axios instance
SecureStoreNoClient(a, data) ==
    IF a.platform = "cloudflare"
    THEN [a EXCEPT !.apiToken = data["apiToken"], !.accountId = data["accountId"]]
    ELSE [a EXCEPT !.apiToken = data["apiToken"]]

\* fields stored and axios instance created before the verification request
SecureStore(a, data) ==
    IF a.platform = "cloudflare"
    THEN [a EXCEPT !.apiToken = data["apiToken"], !.accountId = data["accountId"],
                   !.api = data["apiToken"]]
    ELSE [a EXCEPT !.apiToken = data["apiToken"], !.api = data["apiToken"]]

\* an authenticate that stores the supplied token before validating
SecureAuthenticateStoresFirst(a, credentials, answer) ==
    LET validation == validateAndSanitizeObject("CredentialsSchema", credentials, "credentials")
        failed(e) == <<AdapterTitle(a.platform), " authentication failed: ">> \o e
        early == [a EXCEPT !.apiToken = IF "apiToken" \in DOMAIN credentials
                                        THEN sanitizeInput(credentials["apiToken"]) ELSE @]
        stored == SecureStore(a, validation.data)
        request == SecureRequest(stored, "GET",
                       IF a.platform = "cloudflare" THEN "/accounts/:accountId" ELSE "/v2/user",
                       <<>>)
    IN  IF ~validation.success
        THEN Threw([early EXCEPT !.authenticated = FALSE], failed(validation.error), <<>>)
        ELSE IF SecureRequiredMissing(a.platform, validation.data)
        THEN Threw([early EXCEPT !.authenticated = FALSE],
                   failed(SecureRequiredMessage(a.platform)), <<>>)
        ELSE CASE answer \in {"failed", "echoed"} ->
                    Threw([stored EXCEPT !.authenticated = FALSE],
                          failed(FailureMessage(answer, stored.apiToken)), <<request>>)
               [] answer = "confirmed" ->
                    Returned([stored EXCEPT !.authenticated = TRUE], BoolValue(TRUE),
                             <<request>>)
               [] OTHER -> Returned(stored, BoolValue(FALSE), <<request>>)

SecureAuthenticate(a, credentials, answer) ==
    LET validation == validateAndSanitizeObject("CredentialsSchema", credentials, "credentials")
        failed(e) == <<AdapterTitle(a.platform), " authentication failed: ">> \o e
        stored == SecureStore(a, validation.data)
        request == SecureRequest(stored, "GET",
                       IF a.platform = "cloudflare" THEN "/accounts/:accountId" ELSE "/v2/user",
                       <<>>)
    IN  IF ~validation.success
        THEN Threw([a EXCEPT !.authenticated = FALSE], failed(validation.error), <<>>)
        ELSE IF SecureRequiredMissing(a.platform, validation.data)
        THEN Threw([a EXCEPT !.authenticated = FALSE],
                   failed(SecureRequiredMessage(a.platform)), <<>>)
        ELSE CASE answer \in {"failed", "echoed"} ->
                    Threw([stored EXCEPT !.authenticated = FALSE],
                          failed(FailureMessage(answer, stored.apiToken)), <<request>>)
               [] answer = "confirmed" ->
                    Returned([stored EXCEPT !.authenticated = TRUE], BoolValue(TRUE),
                             <<request>>)
               [] OTHER -> Returned(stored, BoolValue(FALSE), <<request>>)

SecureIsAuthenticated(a) == a.authenticated

SecureDeploy(a, config, ok) ==
    LET nameValidation == validateAndSanitize("ProjectNameSchema", config.projectName,
                                              "project name")
        sanitizedName == nameValidation.data
        failed(e) == <<AdapterTitle(a.platform), " deployment failed: ">> \o e
        request == IF a.platform = "cloudflare"
                   THEN SecureRequest(a, "PUT", "/accounts/:accountId/workers/scripts/:name",
                                      sanitizedName)
                   ELSE SecureRequest(a, "POST", "/v13/deployments", sanitizedName)
    IN  IF ~SecureIsAuthenticated(a)
        THEN Threw(a, <<"Not authenticated with ", AdapterTitle(a.platform)>>, <<>>)
        ELSE IF ~nameValidation.success
        THEN Threw(a, nameValidation.error, <<>>)
        ELSE IF a.api = Null
        THEN Threw(a, failed(NullApiError), <<>>)
        ELSE IF ~ok[1]
        THEN Threw(a, failed(ProviderError), <<request>>)
        ELSE IF a.platform = "cloudflare"
        THEN Returned(a, DeploymentResult("cloudflare",
                            sanitizedName \o <<"-", ToString(now)>>,
                            WorkerUrl(sanitizedName, a.accountId), "ready", now),
                      <<request>>)
        ELSE Returned(a, DeploymentResult("vercel", ProviderDeploymentId,
                                          <<"https://">> \o ProviderUrl, "building", now),
                      <<request>>)

SecureGetStatus(a, deploymentId, ok, view) ==
    LET request == SecureRequest(a, "GET", "/v13/deployments/:id", deploymentId)
        failed(e) == <<"Failed to get deployment status: ">> \o e
    IN  IF a.platform = "cloudflare"
        THEN Returned(a, DeploymentResult("cloudflare", deploymentId,
                                          <<"https://example.workers.dev">>, "ready", now),
                      <<>>)
        ELSE IF a.api = Null
        THEN Threw(a, failed(NullApiError), <<>>)
        ELSE IF ~ok[1]
        THEN Threw(a, failed(ProviderError), <<request>>)
        ELSE Returned(a, DeploymentResult("vercel", deploymentId,
                                          <<"https://">> \o ProviderUrl,
                                          IF view.state = "READY" THEN "ready" ELSE "building",
                                          view.createdAt),
                      <<request>>)

-----------------------------------------------------------------------------
(* Tool responses and handler outcomes *)

Response(isError, text) == [kind |-> "result", isError |-> isError, text |-> text]

\* an exception that leaves the tool callback and reaches the transport
Fault(message) == [kind |-> "fault", isError |-> TRUE, text |-> message]

NoResponse == [kind |-> "none", isError |-> FALSE, text |-> <<>>]

AdapterCall(platform, method, name) ==
    [platform |-> platform, method |-> method, name |-> name]

\* what a tool handler did: whether it threw and with which message, the
\* response it returned, the selected adapter afterwards, the adapter methods
\* it called and the provider requests those issued
Handled(threw, error, response, adapter, adapterCalls, reqs) ==
    [threw |-> threw, error |-> error, response |-> response, adapter |-> adapter,
     adapterCalls |-> adapterCalls, requests |-> reqs]

NoAdapter == [platform |-> "none"]

DeploymentText(headline, r) ==
    <<headline, " Platform: ", r.platform, " Deployment ID: ">> \o r.deploymentId
        \o <<" URL: ">> \o r.url \o <<" Status: ", r.status>>

-----------------------------------------------------------------------------
(* Tools of the index server *)

\* platformAdapters.get(platform) finds an adapter
IndexRegistered(platform) == platform \in Platforms

\* a deploy handler that goes on to the adapter when `authenticate` is set
IndexDeployHandlerNoGate(registry, config, authenticateArg, ok, exists) ==
    LET adapter == registry[config.platform]
        r == deploy(adapter, config, ok, exists)
        called == <<AdapterCall(config.platform, "deploy", config.projectName)>>
    IN  IF ~IndexRegistered(config.platform)
        THEN Handled(FALSE, <<>>,
                     Response(TRUE, <<"Platform ", config.platform, " not supported">>),
                     NoAdapter, <<>>, <<>>)
        ELSE IF ~isAuthenticated(adapter) /\ ~authenticateArg
        THEN Handled(FALSE, <<>>,
                     Response(TRUE, <<"Not authenticated with ", config.platform,
                                      ". Use the 'authenticate' tool first.">>),
                     adapter, <<>>, <<>>)
        ELSE IF r.threw
        THEN Handled(FALSE, <<>>,
                     Response(TRUE, <<"Deployment failed: ">> \o ErrorToString(r.error)),
                     r.adapter, called, r.requests)
        ELSE Handled(FALSE, <<>>,
                     Response(FALSE, DeploymentText("Deployment initiated successfully!", r.value)
                                        \o <<" Project: ">> \o Show(config.projectName)),
                     r.adapter, called, r.requests)

IndexDeployHandler(registry, config, authenticateArg, ok, exists) ==
    LET adapter == registry[config.platform]
        r == deploy(adapter, config, ok, exists)
        called == <<AdapterCall(config.platform, "deploy", config.projectName)>>
    IN  IF ~IndexRegistered(config.platform)
        THEN Handled(FALSE, <<>>,
                     Response(TRUE, <<"Platform ", config.platform, " not supported">>),
                     NoAdapter, <<>>, <<>>)
        ELSE IF ~isAuthenticated(adapter)
        THEN IF ~authenticateArg
             THEN Handled(FALSE, <<>>,
                          Response(TRUE, <<"Not authenticated with ", config.platform,
                                           ". Use the 'authenticate' tool first.">>),
                          adapter, <<>>, <<>>)
             ELSE Handled(FALSE, <<>>,
                          Response(TRUE, <<"Authentication required for ", config.platform,
                                           ". Please use the 'authenticate' tool first with your API credentials.">>),
                          adapter, <<>>, <<>>)
        ELSE IF r.threw
        THEN Handled(FALSE, <<>>,
                     Response(TRUE, <<"Deployment failed: ">> \o ErrorToString(r.error)),
                     r.adapter, called, r.requests)
        ELSE Handled(FALSE, <<>>,
                     Response(FALSE, DeploymentText("Deployment initiated successfully!", r.value)
                                        \o <<" Project: ">> \o Show(config.projectName)),
                     r.adapter, called, r.requests)

IndexAuthenticateHandler(registry, platform, credentials, answer) ==
    LET adapter == registry[platform]
        r == authenticate(adapter, credentials, answer)
        called == <<AdapterCall(platform, "authenticate", <<>>)>>
    IN  IF ~IndexRegistered(platform)
        THEN Handled(FALSE, <<>>,
                     Response(TRUE, <<"Platform ", platform, " not supported">>),
                     NoAdapter, <<>>, <<>>)
        ELSE IF r.threw
        THEN Handled(FALSE, <<>>,
                     Response(TRUE, <<"Authentication failed: ">> \o ErrorToString(r.error)),
                     r.adapter, called, r.requests)
        ELSE IF r.value.b
        THEN Handled(FALSE, <<>>,
                     Response(FALSE, <<"Successfully authenticated with ", platform>>),
                     r.adapter, called, r.requests)
        ELSE Handled(FALSE, <<>>,
                     Response(TRUE, <<"Authentication failed for ", platform>>),
                     r.adapter, called, r.requests)

\* authStore after the authenticate tool: set on success only
IndexAuthStore(store, registry, platform, credentials, answer) ==
    IF IndexRegistered(platform)
       /\ ~authenticate(registry[platform], credentials, answer).threw
       /\ authenticate(registry[platform], credentials, answer).value.b
    THEN MapSet(store, platform, credentials)
    ELSE store

IndexDeploymentStatusHandler(registry, platform, deploymentId, ok, view) ==
    LET adapter == registry[platform]
        r == getStatus(adapter, deploymentId, ok, view)
        called == <<AdapterCall(platform, "getStatus", deploymentId)>>
    IN  IF ~IndexRegistered(platform)
        THEN Handled(FALSE, <<>>,
                     Response(TRUE, <<"Platform ", platform, " not supported">>),
                     NoAdapter, <<>>, <<>>)
        ELSE IF ~isAuthenticated(adapter)
        THEN Handled(FALSE, <<>>,
                     Response(TRUE, <<"Not authenticated with ", platform>>),
                     adapter, <<>>, <<>>)
        ELSE IF r.threw
        THEN Handled(FALSE, <<>>,
                     Response(TRUE, <<"Status check failed: ">> \o ErrorToString(r.error)),
                     r.adapter, called, r.requests)
        ELSE Handled(FALSE, <<>>,
                     Response(FALSE, DeploymentText("Deployment Status", r.value)),
                     r.adapter, called, r.requests)

\* Math.round of a non-negative number
Round(x) == (2 * x.n + x.d) \div (2 * x.d)

Digit(k) == ToString(k % 10)

\* Number.prototype.toFixed(2) of a non-negative number
ToFixed2(x) ==
    LET cents == Round(Number(x.n * 100, x.d))
    IN  <<ToString(cents \div 100), ".", Digit(cents \div 10), Digit(cents)>>

\* `${x}` of a number: the digits of a whole number; the digits of any other
\* number are kept as the fraction they spell
ShowNumber(x) ==
    IF x.n % x.d = 0 THEN <<ToString(x.n \div x.d)>>
    ELSE <<ToString(x.n), "/", ToString(x.d)>>

\* Array.prototype.join
RECURSIVE Join(_, _)
Join(texts, separator) ==
    IF texts = <<>> THEN <<>>
    ELSE IF Len(texts) = 1 THEN texts[1]
    ELSE texts[1] \o <<separator>> \o Join(Tail(texts), separator)

NotAuthenticatedLine(platform) == <<platform, ": Not authenticated">>

ErrorLine(platform, error) ==
    <<platform, ": Error getting data - ">> \o ErrorToString(error)

CostLines(platform, analytics) ==
    <<platform, ":", " Estimated Cost: $">> \o ToFixed2(analytics.totalCost)
        \o <<"/month", " Performance Score: ">> \o ShowNumber(analytics.performanceScore)
        \o <<"/100", " Avg Build Time: ",
             ToString(Round(Number(analytics.averageBuildTime.n,
                                   analytics.averageBuildTime.d * 1000))), "s",
             " Success Rate: ", ToString(Round(Times(analytics.successRate, 100))), "%">>

Gathered(results, adapterCalls, reqs) ==
    [results |-> results, adapterCalls |-> adapterCalls, requests |-> reqs]

\* the loop over the platforms: an entry of results for each registered one
RECURSIVE CostCompareLoop(_, _, _, _)
CostCompareLoop(registry, projectName, platforms, answers) ==
    LET platform == Head(platforms)
        adapter == registry[platform]
        r == getAnalytics(adapter, projectName, answers[platform].ok,
                          answers[platform].listing, answers[platform].usage)
        rest == CostCompareLoop(registry, projectName, Tail(platforms), answers)
        called == <<AdapterCall(platform, "getAnalytics", projectName)>>
    IN  IF platforms = <<>> THEN Gathered(<<>>, <<>>, <<>>)
        ELSE IF ~IndexRegistered(platform) THEN rest
        ELSE IF ~isAuthenticated(adapter)
        THEN Gathered(<<NotAuthenticatedLine(platform)>> \o rest.results,
                      rest.adapterCalls, rest.requests)
        ELSE IF r.threw
        THEN Gathered(<<ErrorLine(platform, r.error)>> \o rest.results,
                      called \o rest.adapterCalls, r.requests \o rest.requests)
        ELSE Gathered(<<CostLines(platform, r.value)>> \o rest.results,
                      called \o rest.adapterCalls, r.requests \o rest.requests)

DefaultPlatforms == <<"cloudflare", "vercel", "railway">>

Recommendations ==
    <<"\n\n", "Recommendations:", " Cloudflare: Best for static sites and edge computing",
      " Vercel: Best for Next.js and React apps",
      " Railway: Best for full-stack apps with databases">>

\* (variant: a platform that is not authenticated fails the whole call)
CostCompareHandlerFailsWhole(registry, config, platformsArg, answers) ==
    LET platforms == IF platformsArg = Undefined THEN DefaultPlatforms ELSE platformsArg
        g == CostCompareLoop(registry, config.projectName, platforms, answers)
    IN  IF \E i \in DOMAIN platforms :
               IndexRegistered(platforms[i]) /\ ~isAuthenticated(registry[platforms[i]])
        THEN Handled(FALSE, <<>>,
                     Response(TRUE, <<"Cost comparison failed: ", "Not authenticated">>),
                     NoAdapter, <<>>, <<>>)
        ELSE Handled(FALSE, <<>>,
                     Response(FALSE, <<"Cost Comparison for ">> \o config.projectName
                                         \o <<"\n\n">> \o Join(g.results, "\n\n")
                                         \o Recommendations),
                     NoAdapter, g.adapterCalls, g.requests)

\* platforms = ['cloudflare', 'vercel', 'railway'] when the argument is absent
CostCompareHandler(registry, config, platformsArg, answers) ==
    LET platforms == IF platformsArg = Undefined THEN DefaultPlatforms ELSE platformsArg
        g == CostCompareLoop(registry, config.projectName, platforms, answers)
    IN  Handled(FALSE, <<>>,
                Response(FALSE, <<"Cost Comparison for ">> \o config.projectName
                                    \o <<"\n\n">> \o Join(g.results, "\n\n")
                                    \o Recommendations),
                NoAdapter, g.adapterCalls, g.requests)

\* an entry of allDeployments that reports a platform instead of a deployment
PlatformError(platform, error) == [platform |-> platform, error |-> error]

Collected(deployments, errors, adapterCalls, reqs) ==
    [deployments |-> deployments, errors |-> errors, adapterCalls |-> adapterCalls,
     requests |-> reqs]

\* the loop over platformsToCheck: the deployments of every authenticated
\* platform, an error entry for every other registered one
RECURSIVE ListDeploymentsLoop(_, _, _)
ListDeploymentsLoop(registry, platforms, answers) ==
    LET platformName == Head(platforms)
        adapter == registry[platformName]
        r == getDeployments(adapter, answers[platformName].ok,
                            answers[platformName].listing, answers[platformName].pages)
        rest == ListDeploymentsLoop(registry, Tail(platforms), answers)
        called == <<AdapterCall(platformName, "getDeployments", <<>>)>>
    IN  IF platforms = <<>> THEN Collected(<<>>, <<>>, <<>>, <<>>)
        ELSE IF ~IndexRegistered(platformName) THEN rest
        ELSE IF ~isAuthenticated(adapter)
        THEN Collected(rest.deployments,
                       <<PlatformError(platformName, <<"Not authenticated">>)>> \o rest.errors,
                       rest.adapterCalls, rest.requests)
        ELSE IF r.threw
        THEN Collected(rest.deployments,
                       <<PlatformError(platformName, ErrorToString(r.error))>> \o rest.errors,
                       called \o rest.adapterCalls, r.requests \o rest.requests)
        ELSE Collected(r.value.items \o rest.deployments, rest.errors,
                       called \o rest.adapterCalls, r.requests \o rest.requests)

\* where sort puts d among entries already in order: before the first entry
\* that is not newer (the sort is stable)
RECURSIVE InsertNewestFirst(_, _)
InsertNewestFirst(d, sorted) ==
    IF sorted = <<>> THEN <<d>>
    ELSE IF Head(sorted).timestamp <= d.timestamp THEN <<d>> \o sorted
    ELSE <<Head(sorted)>> \o InsertNewestFirst(d, Tail(sorted))

\* validDeployments.sort((a, b) => time(b) - time(a))
RECURSIVE SortNewestFirst(_)
SortNewestFirst(deployments) ==
    IF deployments = <<>> THEN <<>>
    ELSE InsertNewestFirst(Head(deployments), SortNewestFirst(Tail(deployments)))

DefaultLimit == 20

\* limit = 20 when the argument is absent
LimitOf(limitArg) == IF limitArg = <<>> THEN DefaultLimit ELSE limitArg[1]

\* (variant: the first entries as gathered, without sorting)
ShownDeploymentsUnsorted(valid, limit) ==
    SubSeq(valid, 1, Min(limit, Len(valid)))

\* the entries the response lists: sorted newest first, then slice(0, limit)
ShownDeployments(valid, limit) ==
    SubSeq(SortNewestFirst(valid), 1, Min(limit, Len(valid)))

StatusEmoji(status) == <<"[", status, "]">>

ToUpperCase(platform) ==
    CASE platform = "cloudflare" -> "CLOUDFLARE"
      [] platform = "vercel" -> "VERCEL"
      [] OTHER -> "RAILWAY"

DayLength == 86400

\* new Date(ms).toISOString().substr(11, 8): the time of day hh:mm:ss (the
\* unit of the model's clock is a second)
TimeOfDay(seconds) ==
    LET s == seconds % DayLength
        h == s \div 3600
        m == (s % 3600) \div 60
    IN  <<Digit(h \div 10), Digit(h), ":", Digit(m \div 10), Digit(m), ":",
          Digit((s % 60) \div 10), Digit(s)>>

IdPrefixLen == 8

DeploymentLine(d) ==
    StatusEmoji(d.status) \o <<" ", ToUpperCase(d.platform), " | ">>
        \o Slice(d.deploymentId, IdPrefixLen) \o <<"... | ">> \o d.url \o <<" | ">>
        \o TimeOfDay(now - d.timestamp) \o <<" ago">>

PlatformErrorLine(e) == <<e.platform, ": ">> \o e.error

DeploymentLines(entries) == [i \in DOMAIN entries |-> DeploymentLine(entries[i])]

PlatformErrorLines(entries) == [i \in DOMAIN entries |-> PlatformErrorLine(entries[i])]

\* platformsToCheck: the platform asked for, or the keys of the registry
PlatformsToCheck(platformArg) ==
    IF platformArg = <<>> THEN DefaultPlatforms ELSE platformArg

ListDeploymentsHandler(registry, platformArg, limitArg, answers) ==
    LET c == ListDeploymentsLoop(registry, PlatformsToCheck(platformArg), answers)
        deployments == ShownDeployments(c.deployments, LimitOf(limitArg))
        errorLines == Join(PlatformErrorLines(c.errors), "\n")
        total == Len(c.deployments) + Len(c.errors)
    IN  IF deployments = <<>>
        THEN Handled(FALSE, <<>>,
                     Response(FALSE, <<"No deployments found">>
                         \o (IF platformArg # <<>> THEN <<" on ">> \o platformArg ELSE <<>>)
                         \o <<".", "\n">>
                         \o (IF c.errors # <<>> THEN <<"\nErrors:\n">> \o errorLines
                             ELSE <<>>)),
                     NoAdapter, c.adapterCalls, c.requests)
        ELSE Handled(FALSE, <<>>,
                     Response(FALSE, <<"Recent Deployments (", ToString(Len(deployments)), "/",
                                       ToString(total), ")", "\n\n">>
                         \o Join(DeploymentLines(deployments), "\n") \o <<"\n\n">>
                         \o (IF c.errors # <<>> THEN <<"\nPlatform Errors:\n">> \o errorLines
                             ELSE <<>>)),
                     NoAdapter, c.adapterCalls, c.requests)

-----------------------------------------------------------------------------
(* Tools of the security-hardened server *)

\* platformAdapters.get(platform) finds an adapter
SecureRegistered(platform) == platform \in SecurePlatforms

RateLimitText == <<"Rate limit exceeded. Please try again later.">>

PingHandler ==
    Handled(FALSE, <<>>,
            Response(FALSE, <<"ChittyCloude MCP is working! Security-hardened version ready.">>),
            NoAdapter, <<>>, <<>>)

HelpHandler ==
    Handled(FALSE, <<>>,
            Response(FALSE, <<"ChittyCloude Universal Deployment MCP (Security-Hardened)">>),
            NoAdapter, <<>>, <<>>)

SecureAuthenticateHandler(registry, platform, credentials, answer) ==
    LET adapter == registry[platform]
        r == SecureAuthenticate(adapter, credentials, answer)
        called == <<AdapterCall(platform, "authenticate", <<>>)>>
    IN  IF ~SecureRegistered(platform)
        THEN Handled(TRUE, <<"Platform ", platform, " not supported">>, NoResponse,
                     NoAdapter, <<>>, <<>>)
        ELSE IF r.threw
        THEN Handled(TRUE, r.error, NoResponse, r.adapter, called, r.requests)
        ELSE IF r.value.b
        THEN Handled(FALSE, <<>>,
                     Response(FALSE, <<"Successfully authenticated with ", platform>>),
                     r.adapter, called, r.requests)
        ELSE Handled(TRUE, <<"Authentication failed for ", platform>>, NoResponse,
                     r.adapter, called, r.requests)

SecureDeployHandler(registry, config, ok) ==
    LET adapter == registry[config.platform]
        r == SecureDeploy(adapter, config, ok)
        called == <<AdapterCall(config.platform, "deploy", config.projectName)>>
    IN  IF ~SecureRegistered(config.platform)
        THEN Handled(TRUE, <<"Platform ", config.platform, " not supported">>, NoResponse,
                     NoAdapter, <<>>, <<>>)
        ELSE IF ~SecureIsAuthenticated(adapter)
        THEN Handled(TRUE, <<"Not authenticated with ", config.platform,
                             ". Use the 'authenticate' tool first.">>,
                     NoResponse, adapter, <<>>, <<>>)
        ELSE IF r.threw
        THEN Handled(TRUE, r.error, NoResponse, r.adapter, called, r.requests)
        ELSE Handled(FALSE, <<>>,
                     Response(FALSE, DeploymentText("Deployment successful!", r.value)
                                        \o <<" Project: ">> \o Show(config.projectName)),
                     r.adapter, called, r.requests)

SecureDeploymentStatusHandler(registry, platform, deploymentId, ok, view) ==
    LET adapter == registry[platform]
        r == SecureGetStatus(adapter, deploymentId, ok, view)
        called == <<AdapterCall(platform, "getStatus", deploymentId)>>
    IN  IF ~SecureRegistered(platform)
        THEN Handled(TRUE, <<"Not authenticated with ", platform>>, NoResponse,
                     NoAdapter, <<>>, <<>>)
        ELSE IF ~SecureIsAuthenticated(adapter)
        THEN Handled(TRUE, <<"Not authenticated with ", platform>>, NoResponse,
                     adapter, <<>>, <<>>)
        ELSE IF r.threw
        THEN Handled(TRUE, r.error, NoResponse, r.adapter, called, r.requests)
        ELSE Handled(FALSE, <<>>,
                     Response(FALSE, DeploymentText("Deployment Status", r.value)),
                     r.adapter, called, r.requests)

\* a dispatcher without the try/catch around the handler
createSecureToolNoCatch(allowed, h) ==
    IF ~allowed
    THEN [invoked |-> FALSE, response |-> Response(TRUE, RateLimitText)]
    ELSE [invoked |-> TRUE,
          response |-> IF h.threw THEN Fault(h.error) ELSE h.response]

\* a dispatcher that runs the handler before it looks at the rate limiter
createSecureToolHandlerFirst(allowed, h) ==
    [invoked |-> TRUE,
     response |-> IF ~allowed THEN Response(TRUE, RateLimitText)
                  ELSE IF h.threw THEN Response(TRUE, <<"Error: ">> \o h.error)
                  ELSE h.response]

\* the callback createSecureTool registers: allowed is what
\* rateLimiter.isAllowed() answered, h what the handler does when invoked
createSecureTool(allowed, h) ==
    IF ~allowed
    THEN [invoked |-> FALSE, response |-> Response(TRUE, RateLimitText)]
    ELSE [invoked |-> TRUE,
          response |-> IF h.threw
                       THEN Response(TRUE, <<"Error: ">> \o h.error)
                       ELSE h.response]

-----------------------------------------------------------------------------
(* The servers and the adapter classes as one state machine *)

\* the largest number of provider requests an operation of a platform issues
ProviderCalls(platform, op) ==
    CASE op = "deploy" /\ platform = "cloudflare" -> 3
      [] op = "deploy" /\ platform = "railway" -> 4
      [] op = "getDeployments" /\ platform = "cloudflare" -> 2
      [] OTHER -> 1

\* ok[i]: whether the i-th provider request of an operation succeeds
Oks(platform, op) == [1..ProviderCalls(platform, op) -> BOOLEAN]

\* the provider answers only the requests that are issued
Answered(ok, reqs) == \A i \in DOMAIN ok : i > Len(reqs) => ok[i]

\* whether the provider already lists the project (Railway deploy looks it up)
ProjectExists(platform) == IF platform = "railway" THEN BOOLEAN ELSE {FALSE}

Optional(S) == S \cup {Undefined}

CredentialKeys == {"apiToken", "accountId", "teamId"}
Tokens == {<<"a">>, <<"Z">>}
AccountIds == {<<"0">>}
TeamIds == {<<"_">>}
\* a value that is empty once sanitized
Stripped == <<"<">>

MakeCredentials(token, account, team) ==
    LET full == [apiToken |-> token, accountId |-> account, teamId |-> team]
    IN  [k \in {key \in CredentialKeys : full[key] # Undefined} |-> full[k]]

CredentialsOver(tokens, accounts, teams) ==
    {MakeCredentials(t, ac, tm) : t \in tokens, ac \in accounts, tm \in teams}

\* the credential maps handed to an adapter class used directly
AdapterCredentials(platform) ==
    CASE platform = "cloudflare" ->
            CredentialsOver(Optional(Tokens), Optional(AccountIds), {Undefined})
      [] platform = "vercel" ->
            CredentialsOver(Optional(Tokens), {Undefined}, Optional(TeamIds))
      [] OTHER -> CredentialsOver(Optional(Tokens), {Undefined}, {Undefined})

\* the credential maps handed to the index server's authenticate tool: the
\* fields the platform requires (incomplete maps are explored on the adapter
\* classes used directly)
IndexCredentials(platform) ==
    CASE platform = "cloudflare" -> CredentialsOver({<<"a">>}, AccountIds, {Undefined})
      [] OTHER -> CredentialsOver({<<"a">>}, {Undefined}, {Undefined})

ProjectNames == {<<"a">>, <<"Z", "_">>, <<"a", "!">>, <<"<", "a">>}
IndexProjectNames == {<<"a">>, <<"a", "!">>}
DeploymentIds == {<<"a", "-", "0">>, <<"d">>}
Environments == {"production"}

\* the platform enum of the index server's tool schemas; render and fly
\* are handled exactly like netlify (no adapter is registered for them)
IndexPlatformEnum == {"cloudflare", "vercel", "railway", "netlify"}

\* PlatformSchema of the security-hardened server
PlatformSchema == {"cloudflare", "vercel", "railway"}

\* DeploymentConfigSchema: any string is a project name
\* buildCommand and outputDirectory select the Cloudflare sub-mode; the
\* other adapters' requests do not depend on them
BuildOptions(platform) ==
    IF platform = "cloudflare" THEN Optional({<<"a">>}) ELSE {Undefined}

DeploymentConfigs(platforms, names) ==
    UNION {[platform : {p}, projectName : names, environment : Environments,
            buildCommand : BuildOptions(p), outputDirectory : BuildOptions(p)] :
           p \in platforms}

\* the provider's view is read only from the answer to a request that is
\* issued and succeeds, and its answer to a verification request only where
\* an adapter issues one
ViewsFor(reads, platform, ok) ==
    IF reads /\ ok[1] THEN ProviderViews(platform)
    ELSE {CHOOSE view \in ProviderViews(platform) : TRUE}

AnswersFor(issued) == IF issued THEN AuthAnswers ELSE {"confirmed"}

ListingsFor(reads, platform) == IF reads THEN Listings(platform) ELSE {<<>>}

\* only the Cloudflare adapter of the index server looks into a deployment id
DeploymentIdsOf(platform) ==
    IF platform = "cloudflare" THEN DeploymentIds ELSE {<<"d">>}

\* the deploy tool's arguments in the security-hardened server: the schema
\* admits a project name only if ProjectNameSchema accepts it as given
SecureDeployArgs ==
    {[platform |-> p, projectName |-> n, environment |-> e] :
        p \in PlatformSchema,
        n \in {name \in ProjectNames : ProjectNameSchema(name) = <<>>},
        e \in Environments}

\* the authenticate tool's arguments in the security-hardened server: the
\* schema admits credentials only if CredentialsSchema accepts them as given
SecureCredentials(platform) ==
    {c \in (IF platform = "cloudflare"
            THEN CredentialsOver(Optional(Tokens), Optional(AccountIds \cup {Stripped}),
                                 {Undefined})
            ELSE CredentialsOver(Optional(Tokens), {Undefined}, Optional({Stripped}))) :
        CredentialsSchema(c) = <<>>}

\* the adapter class a program that uses one adapter directly instantiates
AdapterEntries == {"CloudflareAdapter", "VercelAdapter", "RailwayAdapter"}
EntryPlatform ==
    CASE entry = "CloudflareAdapter" -> "cloudflare"
      [] entry = "VercelAdapter" -> "vercel"
      [] OTHER -> "railway"

Call(op, platform, name, preAuth, limited, invoked, threw, error, value, response, adapterCalls, reqs) ==
    [op |-> op, platform |-> platform, name |-> name, preAuth |-> preAuth,
     limited |-> limited, invoked |-> invoked, threw |-> threw, error |-> error,
     value |-> value, response |-> response, adapterCalls |-> adapterCalls,
     requests |-> reqs]

NoOp == Call("none", "none", <<>>, FALSE, FALSE, FALSE, FALSE, <<>>, NoValue, NoResponse,
             <<>>, <<>>)

Init ==
    /\ input = <<>>
    /\ result = NoResult
    /\ now = 0
    /\ maxRequests = MaxN
    /\ windowMs = MaxW
    /\ requests = <<>>
    /\ admitted = <<>>
    /\ last = NoCall
    /\ entry \in AdapterEntries \cup {"index", "secure"}
    /\ adapters = [p \in Platforms |-> NewAdapter(p)]
    /\ secure = [p \in SecurePlatforms |-> NewSecureAdapter(p)]
    /\ authStore = <<>>
    /\ flights = <<>>
    /\ client = <<>>
    /\ call = NoOp

(* The adapter classes called directly *)

AdapterDone(p, op, name, r, ok) ==
    /\ Answered(ok, r.requests)
    /\ adapters' = [adapters EXCEPT ![p] = r.adapter]
    /\ call' = Call(op, p, name, isAuthenticated(adapters[p]), FALSE, TRUE, r.threw,
                    r.error, r.value, NoResponse, <<AdapterCall(p, op, name)>>, r.requests)
    /\ UNCHANGED <<validateVars, now, limiterVars, entry, secure, authStore, flights, client>>

AdapterAuthenticate ==
    /\ entry \in AdapterEntries
    /\ \E p \in {EntryPlatform} :
       \E credentials \in AdapterCredentials(p), answer \in AuthAnswers :
          AdapterDone(p, "authenticate", <<>>, authenticate(adapters[p], credentials, answer),
                      <<>>)

AdapterDeploy ==
    /\ entry \in AdapterEntries
    /\ \E config \in DeploymentConfigs({EntryPlatform}, ProjectNames) :
       \E ok \in Oks(config.platform, "deploy"), exists \in ProjectExists(config.platform) :
          /\ AdapterDone(config.platform, "deploy", config.projectName,
                         deploy(adapters[config.platform], config, ok, exists), ok)

AdapterGetStatus ==
    /\ entry \in AdapterEntries
    /\ \E p \in {EntryPlatform} : \E deploymentId \in DeploymentIdsOf(p) :
       \E ok \in Oks(p, "getStatus") : \E view \in ViewsFor(TRUE, p, ok) :
          AdapterDone(p, "getStatus", deploymentId,
                      getStatus(adapters[p], deploymentId, ok, view), ok)

AdapterGetDeployments ==
    /\ entry \in AdapterEntries
    /\ \E p \in {EntryPlatform} :
       \E ok \in Oks(p, "getDeployments") :
       \E listing \in ListingsFor(\A i \in DOMAIN ok : ok[i], p),
          pages \in ListingsFor(p = "cloudflare" /\ \A i \in DOMAIN ok : ok[i], p) :
          AdapterDone(p, "getDeployments", <<>>,
                      getDeployments(adapters[p], ok, listing, pages), ok)

(* The index server: one tool call is one step *)

IndexDone(op, platform, name, h, store, ok) ==
    /\ Answered(ok, h.requests)
    /\ adapters' = IF h.adapter = NoAdapter THEN adapters
                   ELSE [adapters EXCEPT ![platform] = h.adapter]
    /\ authStore' = store
    /\ call' = Call(op, platform, name,
                    IndexRegistered(platform) /\ isAuthenticated(adapters[platform]),
                    FALSE, TRUE, h.threw, h.error, h.response,
                    IF h.threw THEN Fault(h.error) ELSE h.response,
                    h.adapterCalls, h.requests)
    /\ UNCHANGED <<validateVars, now, limiterVars, entry, secure, flights, client>>

IndexDeployTool ==
    /\ entry = "index"
    /\ \E config \in DeploymentConfigs(IndexPlatformEnum, IndexProjectNames),
          authenticateArg \in BOOLEAN :
       \E ok \in Oks(config.platform, "deploy"), exists \in ProjectExists(config.platform) :
          IndexDone("deploy", config.platform, config.projectName,
                    IndexDeployHandler(adapters, config, authenticateArg, ok, exists),
                    authStore, ok)

IndexAuthenticateTool ==
    /\ entry = "index"
    /\ \E platform \in IndexPlatformEnum :
       \E credentials \in IndexCredentials(platform),
          answer \in AnswersFor(IndexRegistered(platform)) :
          IndexDone("authenticate", platform, <<>>,
                    IndexAuthenticateHandler(adapters, platform, credentials, answer),
                    IndexAuthStore(authStore, adapters, platform, credentials, answer), <<>>)

IndexDeploymentStatusTool ==
    /\ entry = "index"
    /\ \E platform \in IndexPlatformEnum : \E deploymentId \in DeploymentIdsOf(platform) :
       \E ok \in Oks(platform, "getStatus") :
       \E view \in ViewsFor(IndexRegistered(platform), platform, ok) :
          IndexDone("deployment-status", platform, deploymentId,
                    IndexDeploymentStatusHandler(adapters, platform, deploymentId, ok, view),
                    authStore, ok)

(* The security-hardened server: one tool call is one step *)

\* a dispatcher that keeps one history per tool
SecureDonePerTool(op, platform, name, h, ok) ==
    LET allowed == isAllowedResult(op)
        tool == createSecureTool(allowed, h)
    IN  /\ Answered(ok, IF tool.invoked THEN h.requests ELSE <<>>)
        /\ requests' = isAllowedRequests(op)
        /\ secure' = IF tool.invoked /\ h.adapter # NoAdapter
                     THEN [secure EXCEPT ![platform] = h.adapter]
                     ELSE secure
        /\ call' = IF tool.invoked
                   THEN Call(op, platform, name,
                             SecureRegistered(platform) /\ SecureIsAuthenticated(secure[platform]),
                             ~allowed, TRUE, h.threw, h.error, h.response, tool.response,
                             h.adapterCalls, h.requests)
                   ELSE Call(op, platform, name,
                             SecureRegistered(platform) /\ SecureIsAuthenticated(secure[platform]),
                             ~allowed, FALSE, FALSE, <<>>, NoResponse, tool.response,
                             <<>>, <<>>)
        /\ UNCHANGED <<validateVars, now, maxRequests, windowMs, admitted, last,
                       entry, adapters, authStore, flights, client>>

SecureDone(op, platform, name, h, ok) ==
    LET allowed == isAllowedResult("default")
        tool == createSecureTool(allowed, h)
    IN  /\ Answered(ok, IF tool.invoked THEN h.requests ELSE <<>>)
        /\ requests' = isAllowedRequests("default")
        /\ secure' = IF tool.invoked /\ h.adapter # NoAdapter
                     THEN [secure EXCEPT ![platform] = h.adapter]
                     ELSE secure
        /\ call' = IF tool.invoked
                   THEN Call(op, platform, name,
                             SecureRegistered(platform) /\ SecureIsAuthenticated(secure[platform]),
                             ~allowed, TRUE, h.threw, h.error, h.response, tool.response,
                             h.adapterCalls, h.requests)
                   ELSE Call(op, platform, name,
                             SecureRegistered(platform) /\ SecureIsAuthenticated(secure[platform]),
                             ~allowed, FALSE, FALSE, <<>>, NoResponse, tool.response,
                             <<>>, <<>>)
        /\ UNCHANGED <<validateVars, now, maxRequests, windowMs, admitted, last,
                       entry, adapters, authStore, flights, client>>

SecurePingTool ==
    /\ entry = "secure"
    /\ SecureDone("ping", "none", <<>>, PingHandler, <<>>)

SecureHelpTool ==
    /\ entry = "secure"
    /\ SecureDone("help", "none", <<>>, HelpHandler, <<>>)

SecureAuthenticateTool ==
    /\ entry = "secure"
    /\ \E platform \in PlatformSchema :
       \E credentials \in SecureCredentials(platform) :
       \E answer \in AnswersFor(SecureAuthenticateHandler(secure, platform, credentials,
                                                          "confirmed").requests # <<>>) :
          SecureDone("authenticate", platform, <<>>,
                     SecureAuthenticateHandler(secure, platform, credentials, answer), <<>>)

SecureDeployTool ==
    /\ entry = "secure"
    /\ \E config \in SecureDeployArgs :
       \E ok \in Oks(config.platform, "deploy") :
          SecureDone("deploy", config.platform, config.projectName,
                     SecureDeployHandler(secure, config, ok), ok)

SecureDeploymentStatusTool ==
    /\ entry = "secure"
    /\ \E platform \in PlatformSchema, deploymentId \in {<<"d">>} :
       \E ok \in Oks(platform, "getStatus") :
       \E view \in ViewsFor(platform = "vercel", platform, ok) :
          SecureDone("deployment-status", platform, deploymentId,
                     SecureDeploymentStatusHandler(secure, platform, deploymentId, ok, view),
                     ok)

\* the clock decides the rate limiter's admissions; where no rate limiter
\* runs it only stamps results and stays at its initial value
ClockTick ==
    /\ entry = "secure"
    /\ Tick
    /\ UNCHANGED <<validateVars, limiterVars, serverVars>>

Next ==
    \/ AdapterAuthenticate
    \/ AdapterDeploy
    \/ AdapterGetStatus
    \/ AdapterGetDeployments
    \/ IndexDeployTool
    \/ IndexAuthenticateTool
    \/ IndexDeploymentStatusTool
    \/ SecurePingTool
    \/ SecureHelpTool
    \/ SecureAuthenticateTool
    \/ SecureDeployTool
    \/ SecureDeploymentStatusTool
    \/ ClockTick

Spec == Init /\ [][Next]_vars

-----------------------------------------------------------------------------
(* Operations harness: one adapter method applied to an adapter in a given
   state, with given arguments and provider answers *)

\* the credentials that authenticate an adapter of the platform
FullCredentials(platform) ==
    IF platform = "cloudflare" THEN MakeCredentials(<<"a">>, <<"0">>, Undefined)
    ELSE MakeCredentials(<<"a">>, Undefined, Undefined)

\* an adapter as constructed, and after a confirmed authenticate
GivenAdapters(platform) ==
    {NewAdapter(platform),
     authenticate(NewAdapter(platform), FullCredentials(platform), "confirmed").adapter}

\* the deployments a provider lists for the analytics of a platform
AnalyticsListings(platform) ==
    CASE platform = "vercel" -> VercelProjectListings
      [] platform = "railway" -> Listings("railway")
      [] OTHER -> {<<>>}

GetCostInputs ==
    UNION {[op : {"getCost"}, adapter : GivenAdapters(p), deploymentId : {<<"d">>},
            ok : BOOLEAN, usage : UsageViews(p)] : p \in Platforms}

GetAnalyticsInputs ==
    UNION {[op : {"getAnalytics"}, adapter : GivenAdapters(p),
            projectName : {<<"d">>, <<"a">>}, ok : [1..2 -> BOOLEAN],
            listing : AnalyticsListings(p), usage : UsageViews(p)] : p \in Platforms}

ShareWithTeamInputs ==
    UNION {[op : {"shareWithTeam"}, adapter : GivenAdapters(p), deploymentId : {<<"d">>},
            teamId : TeamIds, ok : BOOLEAN] : p \in Platforms}

\* the index server's registry with each adapter as constructed or after a
\* confirmed authenticate
Registries ==
    {[cloudflare |-> c, vercel |-> v, railway |-> r] :
        c \in GivenAdapters("cloudflare"), v \in GivenAdapters("vercel"),
        r \in GivenAdapters("railway")}

\* the platforms argument of cost-compare (absent, or a list over the enum)
PlatformLists ==
    {Undefined, <<"vercel", "railway">>, <<"railway", "cloudflare">>,
     <<"netlify", "vercel">>}

PlatformsOf(platformsArg) ==
    IF platformsArg = Undefined THEN DefaultPlatforms ELSE platformsArg

\* the platform is in the list, registered and authenticated: its adapter is called
Consulted(registry, platforms, p) ==
    /\ \E i \in DOMAIN platforms : platforms[i] = p
    /\ isAuthenticated(registry[p])

\* what the provider of a platform answers to the requests of getAnalytics
\* (finished deployments, succeeded or failed)
ProjectListings(platform) ==
    CASE platform = "vercel" ->
            UNION {[1..k -> {d \in VercelProjectItems : d.ready # 0}] : k \in 0..MaxListed}
      [] platform = "railway" ->
            UNION {[1..k -> {d \in ListedItems("railway") : d.state \in {"SUCCESS", "FAILED"}}] :
                   k \in 0..MaxListed}
      [] OTHER -> {<<>>}

AnalyticsAnswers(platform, consulted) ==
    IF consulted /\ platform # "cloudflare"
    THEN [ok : [1..2 -> BOOLEAN], listing : ProjectListings(platform),
          usage : {CHOOSE u \in UsageViews(platform) : \A k \in DOMAIN u : u[k] # 0}]
    ELSE {[ok |-> [i \in 1..2 |-> TRUE], listing |-> <<>>,
           usage |-> CHOOSE u \in UsageViews(platform) : TRUE]}

CostCompareInputs ==
    UNION {[op : {"cost-compare"}, registry : {registry}, platforms : {platforms},
            config : [projectName : {<<"d">>}],
            answers : {[cloudflare |-> c, vercel |-> v, railway |-> r] :
                c \in AnalyticsAnswers("cloudflare", FALSE),
                v \in AnalyticsAnswers("vercel",
                                       Consulted(registry, PlatformsOf(platforms), "vercel")),
                r \in AnalyticsAnswers("railway",
                                       Consulted(registry, PlatformsOf(platforms), "railway"))}] :
           registry \in Registries, platforms \in PlatformLists}

\* what the provider of a platform lists for getDeployments: entries that
\* differ in their creation time
DeploymentItems(platform, stamps) ==
    [id : {ProviderDeploymentId},
     state : {CHOOSE state \in StatesOf(platform) : TRUE}, createdAt : stamps]

DeploymentListings(platform, stamps) ==
    UNION {[1..k -> DeploymentItems(platform, stamps)] : k \in 0..MaxListed}

\* the answers to the requests of getDeployments: none is read when the
\* adapter is not called, no listing when a request fails
DeploymentAnswers(platform, consulted) ==
    LET calls == 1..ProviderCalls(platform, "getDeployments")
        allOk == [i \in calls |-> TRUE]
        pages == IF platform = "cloudflare"
                 THEN DeploymentListings(platform, {MaxStamp}) ELSE {<<>>}
    IN  IF ~consulted THEN {[ok |-> allOk, listing |-> <<>>, pages |-> <<>>]}
        ELSE [ok : {allOk}, listing : DeploymentListings(platform, Stamps), pages : pages]
             \cup {[ok |-> [i \in calls |-> i # k], listing |-> <<>>, pages |-> <<>>] :
                    k \in calls}

\* the platform argument of list-deployments (absent, or one of the enum)
PlatformArgs == {<<>>} \cup {<<p>> : p \in IndexPlatformEnum}

\* the limit argument of list-deployments (absent, or a number from 1 to 100)
LimitArgs == {<<>>, <<1>>, <<2>>}

ListDeploymentsInputs ==
    UNION {[op : {"list-deployments"}, registry : {registry}, platform : {platform},
            limit : LimitArgs,
            answers : {[cloudflare |-> c, vercel |-> v, railway |-> r] :
                c \in DeploymentAnswers("cloudflare",
                        Consulted(registry, PlatformsToCheck(platform), "cloudflare")),
                v \in DeploymentAnswers("vercel",
                        Consulted(registry, PlatformsToCheck(platform), "vercel")),
                r \in DeploymentAnswers("railway",
                        Consulted(registry, PlatformsToCheck(platform), "railway"))}] :
           registry \in Registries, platform \in PlatformArgs}

\* an adapter of the security-hardened server as constructed, and after a
\* confirmed authenticate
GivenSecureAdapters(platform) ==
    {NewSecureAdapter(platform),
     SecureAuthenticate(NewSecureAdapter(platform), FullCredentials(platform),
                        "confirmed").adapter}

\* deployment ids asked about: `${projectName}-${Date.now()}` of the projects
\* a and Za, and a provider-assigned id
StatusDeploymentIds(platform) ==
    IF platform = "cloudflare" THEN {<<"a", "-", "0">>, <<"Z", "a", "-", "0">>}
    ELSE {<<"d">>}

GetStatusInputs ==
    UNION {[op : {"getStatus"}, adapter : GivenAdapters(p),
            deploymentId : StatusDeploymentIds(p), ok : [1..1 -> BOOLEAN],
            view : ProviderViews(p)] : p \in Platforms}

SecureGetStatusInputs ==
    UNION {[op : {"secure getStatus"}, adapter : GivenSecureAdapters(p),
            deploymentId : StatusDeploymentIds(p), ok : [1..1 -> BOOLEAN],
            view : ProviderViews(p)] : p \in SecurePlatforms}

GetDeploymentsInputs ==
    UNION {[op : {"getDeployments"}, adapter : GivenAdapters(p),
            ok : Oks(p, "getDeployments"), listing : Listings(p),
            pages : IF p = "cloudflare" THEN Listings(p) ELSE {<<>>}] : p \in Platforms}

\* an account id longer than the prefix that goes into a Worker's host name
LongAccountId == Rep("0", AccountPrefixLen + 1)

\* adapters to deploy with: also a Cloudflare adapter authenticated for an
\* account with a long id
DeployingAdapters(platform) ==
    GivenAdapters(platform) \cup
        (IF platform = "cloudflare"
         THEN {authenticate(NewAdapter(platform),
                            MakeCredentials(<<"a">>, LongAccountId, Undefined),
                            "confirmed").adapter}
         ELSE {})

DeployingSecureAdapters(platform) ==
    GivenSecureAdapters(platform) \cup
        (IF platform = "cloudflare"
         THEN {SecureAuthenticate(NewSecureAdapter(platform),
                                  MakeCredentials(<<"a">>, LongAccountId, Undefined),
                                  "confirmed").adapter}
         ELSE {})

DeployInputs ==
    UNION {[op : {"deploy"}, adapter : DeployingAdapters(p),
            config : DeploymentConfigs({p}, ProjectNames), ok : Oks(p, "deploy"),
            exists : ProjectExists(p)] : p \in Platforms}

SecureDeployInputs ==
    UNION {[op : {"secure deploy"}, adapter : DeployingSecureAdapters(p),
            config : {c \in SecureDeployArgs : c.platform = p},
            ok : [1..1 -> BOOLEAN]] : p \in SecurePlatforms}

\* the provider's answers to a verification request, with both kinds of
\* failure text
VerificationAnswers == AuthAnswers \cup {"echoed"}

\* the registries of the two servers at start-up
FreshRegistry == [p \in Platforms |-> NewAdapter(p)]
FreshSecureRegistry == [p \in SecurePlatforms |-> NewSecureAdapter(p)]

AuthenticateToolInputs ==
    UNION {[op : {"authenticate"}, platform : {p}, credentials : AdapterCredentials(p),
            answer : VerificationAnswers] : p \in Platforms}

SecureAuthenticateToolInputs ==
    UNION {[op : {"secure authenticate"}, platform : {p},
            credentials : SecureCredentials(p), answer : VerificationAnswers] :
           p \in SecurePlatforms}

\* authenticate called on an adapter class directly, fresh or already
\* authenticated
AdapterAuthenticateInputs ==
    UNION {[op : {"adapter authenticate"}, adapter : GivenAdapters(p),
            credentials : AdapterCredentials(p), answer : AuthAnswers] : p \in Platforms}

\* the credential maps handed to an adapter of the security-hardened server
\* used directly: fields may be absent, or empty once sanitized
SecureAdapterCredentials(platform) ==
    IF platform = "cloudflare"
    THEN CredentialsOver(Optional(Tokens \cup {Stripped}),
                         Optional(AccountIds \cup {Stripped}), {Undefined})
    ELSE CredentialsOver(Optional(Tokens \cup {Stripped}), {Undefined},
                         Optional(TeamIds \cup {Stripped}))

SecureAdapterAuthenticateInputs ==
    UNION {[op : {"secure adapter authenticate"}, adapter : GivenSecureAdapters(p),
            credentials : SecureAdapterCredentials(p), answer : AuthAnswers] :
           p \in SecurePlatforms}

OperationInputs ==
    GetCostInputs \cup GetAnalyticsInputs \cup ShareWithTeamInputs \cup CostCompareInputs
        \cup ListDeploymentsInputs \cup GetStatusInputs \cup SecureGetStatusInputs
        \cup GetDeploymentsInputs \cup DeployInputs \cup SecureDeployInputs
        \cup AuthenticateToolInputs \cup SecureAuthenticateToolInputs
        \cup AdapterAuthenticateInputs \cup SecureAdapterAuthenticateInputs

InitOperations ==
    /\ input \in OperationInputs
    /\ result = NoResult
    /\ now = MaxStamp
    /\ maxRequests = 1
    /\ windowMs = 1
    /\ requests = <<>>
    /\ admitted = <<>>
    /\ last = [client |-> "", time |-> 0, allowed |-> TRUE, before |-> <<>>]
    /\ entry = "operations"
    /\ adapters = <<>>
    /\ secure = <<>>
    /\ authStore = <<>>
    /\ flights = <<>>
    /\ client = <<>>
    /\ call = <<>>

Applied(op, r) ==
    /\ input.op = op
    /\ result = NoResult
    /\ result' = r
    /\ UNCHANGED <<input, now, limiterVars, serverVars>>

ApplyGetCost ==
    /\ input.op = "getCost"
    /\ Applied("getCost", getCost(input.adapter, input.deploymentId, input.ok, input.usage))

ApplyGetAnalytics ==
    /\ input.op = "getAnalytics"
    /\ Applied("getAnalytics", getAnalytics(input.adapter, input.projectName, input.ok,
                                            input.listing, input.usage))

ApplyShareWithTeam ==
    /\ input.op = "shareWithTeam"
    /\ Applied("shareWithTeam", shareWithTeam(input.adapter, input.deploymentId,
                                              input.teamId, input.ok))

ApplyCostCompare ==
    /\ input.op = "cost-compare"
    /\ Applied("cost-compare", CostCompareHandler(input.registry, input.config,
                                                  input.platforms, input.answers))

ApplyListDeployments ==
    /\ input.op = "list-deployments"
    /\ Applied("list-deployments", ListDeploymentsHandler(input.registry, input.platform,
                                                          input.limit, input.answers))

ApplyGetStatus ==
    /\ input.op = "getStatus"
    /\ Applied("getStatus", getStatus(input.adapter, input.deploymentId, input.ok,
                                      input.view))

ApplySecureGetStatus ==
    /\ input.op = "secure getStatus"
    /\ Applied("secure getStatus", SecureGetStatus(input.adapter, input.deploymentId,
                                                   input.ok, input.view))

ApplyGetDeployments ==
    /\ input.op = "getDeployments"
    /\ Applied("getDeployments", getDeployments(input.adapter, input.ok, input.listing,
                                                input.pages))

ApplyDeploy ==
    /\ input.op = "deploy"
    /\ Applied("deploy", deploy(input.adapter, input.config, input.ok, input.exists))

ApplySecureDeploy ==
    /\ input.op = "secure deploy"
    /\ Applied("secure deploy", SecureDeploy(input.adapter, input.config, input.ok))

ApplyAuthenticateTool ==
    /\ input.op = "authenticate"
    /\ Applied("authenticate", IndexAuthenticateHandler(FreshRegistry, input.platform,
                                                        input.credentials, input.answer))

ApplySecureAuthenticateTool ==
    /\ input.op = "secure authenticate"
    /\ Applied("secure authenticate",
               createSecureTool(TRUE, SecureAuthenticateHandler(FreshSecureRegistry,
                                          input.platform, input.credentials, input.answer)))

ApplyAdapterAuthenticate ==
    /\ input.op = "adapter authenticate"
    /\ Applied("adapter authenticate", authenticate(input.adapter, input.credentials,
                                                     input.answer))

ApplySecureAdapterAuthenticate ==
    /\ input.op = "secure adapter authenticate"
    /\ Applied("secure adapter authenticate",
               SecureAuthenticate(input.adapter, input.credentials, input.answer))

NextOperations ==
    \/ ApplyGetCost
    \/ ApplyGetAnalytics
    \/ ApplyShareWithTeam
    \/ ApplyCostCompare
    \/ ApplyListDeployments
    \/ ApplyGetStatus
    \/ ApplySecureGetStatus
    \/ ApplyGetDeployments
    \/ ApplyDeploy
    \/ ApplySecureDeploy
    \/ ApplyAuthenticateTool
    \/ ApplySecureAuthenticateTool
    \/ ApplyAdapterAuthenticate
    \/ ApplySecureAdapterAuthenticate

SpecOperations == InitOperations /\ [][NextOperations]_vars

-----------------------------------------------------------------------------
(* getTeamDeployments in progress: a call begins, its request leaves through
   the request interceptor, and it ends when the provider has answered; the
   caller may begin another call on the same adapter in between *)

\* how many calls may be in progress at once
MaxFlights == 2

NoRequest ==
    [platform |-> "none", method |-> "none", endpoint |-> "none", account |-> <<>>,
     name |-> <<>>, auth |-> Undefined, teamId |-> Undefined]

Flight(stage, platform, teamId, originalTeamId, request, threw) ==
    [stage |-> stage, platform |-> platform, teamId |-> teamId,
     originalTeamId |-> originalTeamId, request |-> request, threw |-> threw]

Idle == Flight("idle", "none", <<>>, <<>>, NoRequest, FALSE)

\* the adapter once getTeamDeployments(teamId) has set its team context
\* (Cloudflare and Railway go straight to getDeployments)
TeamContextSet(a, teamId) ==
    IF a.platform = "vercel" THEN [a EXCEPT !.teamId = teamId] ELSE a

\* the adapter once the finally block of getTeamDeployments has run
TeamContextRestored(a, originalTeamId) ==
    IF a.platform = "vercel" THEN [a EXCEPT !.teamId = originalTeamId] ELSE a

\* the first request of getDeployments as the interceptor lets it out
TeamRequest(a) ==
    CASE a.platform = "cloudflare" ->
            Request(a, "GET", "/accounts/:accountId/workers/scripts", <<>>)
      [] a.platform = "vercel" -> Request(a, "GET", "/v6/deployments", <<>>)
      [] OTHER -> Request(a, "POST", "query projects services instances", <<>>)

\* the teams a caller asks about
AskedTeams == {<<"a">>, <<"Z">>}

\* the last step taken: which method, on which adapter, for which call
TeamStep(op, platform, flight) == [op |-> op, platform |-> platform, flight |-> flight]

InitTeam ==
    /\ input = <<>>
    /\ result = NoResult
    /\ now = 0
    /\ maxRequests = 1
    /\ windowMs = 1
    /\ requests = <<>>
    /\ admitted = <<>>
    /\ last = [client |-> "", time |-> 0, allowed |-> TRUE, before |-> <<>>]
    /\ entry = "team"
    /\ adapters = [p \in Platforms |-> NewAdapter(p)]
    /\ secure = <<>>
    /\ authStore = <<>>
    /\ call = TeamStep("none", "none", 0)
    /\ flights = [i \in 1..MaxFlights |-> Idle]
    /\ client = <<>>

TeamFrame == UNCHANGED <<validateVars, now, limiterVars, entry, secure, authStore, client>>

\* authenticate, before the calls
TeamAuthenticate ==
    /\ \A i \in DOMAIN flights : flights[i].stage = "idle"
    /\ \E p \in Platforms :
       \E credentials \in CredentialsOver({<<"a">>}, IF p = "cloudflare" THEN AccountIds
                                                     ELSE {Undefined},
                                          IF p = "vercel" THEN Optional(TeamIds)
                                          ELSE {Undefined}) :
       \E answer \in {"confirmed", "failed"} :
          /\ adapters' = [adapters EXCEPT
                              ![p] = authenticate(adapters[p], credentials, answer).adapter]
          /\ call' = TeamStep("authenticate", p, 0)
    /\ UNCHANGED flights
    /\ TeamFrame

\* getTeamDeployments(teamId) runs up to its await
BeginTeamDeployments ==
    /\ \E i \in DOMAIN flights :
       \E p \in Platforms :
       \E teamId \in AskedTeams :
          /\ flights[i].stage = "idle"
          /\ \A j \in 1..(i - 1) : flights[j].stage # "idle"
          /\ flights' = [flights EXCEPT
                            ![i] = Flight("begun", p, teamId, adapters[p].teamId,
                                          NoRequest, FALSE)]
          /\ adapters' = [adapters EXCEPT ![p] = TeamContextSet(adapters[p], teamId)]
          /\ call' = TeamStep("getTeamDeployments", p, i)
    /\ TeamFrame

\* the request interceptor reads apiToken and teamId and the request leaves
SendTeamRequest ==
    /\ \E i \in DOMAIN flights :
          /\ flights[i].stage = "begun"
          /\ flights' = [flights EXCEPT
                            ![i].stage = "sent",
                            ![i].request = TeamRequest(adapters[flights[i].platform])]
          /\ call' = TeamStep("getTeamDeployments", flights[i].platform, i)
    /\ UNCHANGED adapters
    /\ TeamFrame

\* the provider has answered (or the request failed): the finally block runs
FinishTeamDeployments ==
    /\ \E i \in DOMAIN flights :
       \E ok \in BOOLEAN :
          /\ flights[i].stage = "sent"
          /\ flights' = [flights EXCEPT ![i].stage = "done", ![i].threw = ~ok]
          /\ adapters' = [adapters EXCEPT
                              ![flights[i].platform] =
                                  TeamContextRestored(adapters[flights[i].platform],
                                                      flights[i].originalTeamId)]
          /\ call' = TeamStep("getTeamDeployments", flights[i].platform, i)
    /\ TeamFrame

NextTeam ==
    \/ TeamAuthenticate
    \/ BeginTeamDeployments
    \/ SendTeamRequest
    \/ FinishTeamDeployments

SpecTeam == InitTeam /\ [][NextTeam]_vars

-----------------------------------------------------------------------------
(* ChittyIDClient: the session fields, authenticate, logout, and a request
   that goes through the response interceptor *)

\* currentUser and authToken are null until authenticate sets them
NewClient == [currentUser |-> Null, authToken |-> Null]

ChittyIDIsAuthenticated(c) == c.currentUser # Null /\ c.authToken # Null

\* the user record the service holds for the bearer of a token
UserOf(token) == <<"user of ">> \o token

\* the request interceptor sends authToken as the bearer token when it is
\* set, and the client's API key otherwise: the user the service answers with
UserFor(token) == IF Truthy(token) THEN UserOf(token) ELSE UserOf(<<"api key">>)

\* what the service does with a request: answers it, answers 401, or the
\* request fails otherwise
ServiceAnswers == {"ok", "unauthorized", "failed"}

\* the response interceptor clears the session on a 401 answer
ResponseInterceptor(c, answer) ==
    IF answer = "unauthorized"
    THEN [c EXCEPT !.currentUser = Null, !.authToken = Null]
    ELSE c

AuthMethods == {"token", "apikey", "oauth"}
ClientTokens == {<<"a">>, <<"Z">>, <<"_">>}

\* what a method of the client did: the client afterwards, whether it
\* threw, whether it sent a request
ClientOut(c, threw, sent) == [client |-> c, threw |-> threw, sent |-> sent]

\* authenticate(credentials): token is credentials.token for the method
\* 'token', and the token the service issues for the API key or the OAuth
\* code otherwise; any other method is refused before a request is made
ChittyIDAuthenticate(c, method, token, answer) ==
    LET presented == IF method = "token" THEN [c EXCEPT !.authToken = token] ELSE c
        answered == ResponseInterceptor(presented, answer)
    IN  IF method \notin AuthMethods
        THEN ClientOut(c, TRUE, FALSE)
        ELSE IF answer # "ok"
        THEN ClientOut(answered, TRUE, TRUE)
        ELSE ClientOut([answered EXCEPT !.authToken = token,
                                        !.currentUser = UserFor(token)], FALSE, TRUE)

\* getUser(userId): any request made with the session
getUser(c, answer) == ClientOut(ResponseInterceptor(c, answer), answer # "ok", TRUE)

\* connectPlatform(platform, credentials): the connection is posted and,
\* when a user is held, the user record is read again with the session's
\* token; answers[i] is the service's answer to the i-th request
connectPlatform(c, answers) ==
    IF answers[1] # "ok"
    THEN ClientOut(ResponseInterceptor(c, answers[1]), TRUE, TRUE)
    ELSE IF c.currentUser = Null
    THEN ClientOut(c, FALSE, TRUE)
    ELSE IF answers[2] # "ok"
    THEN ClientOut(ResponseInterceptor(c, answers[2]), TRUE, TRUE)
    ELSE ClientOut([c EXCEPT !.currentUser = UserFor(c.authToken)], FALSE, TRUE)

\* a logout whose clean-up runs only when the request went through
logoutWithoutFinally(c, answer) ==
    LET sent == c.authToken # Null /\ Truthy(c.authToken)
        answered == ResponseInterceptor(c, IF sent THEN answer ELSE "ok")
    IN  IF sent /\ answer # "ok"
        THEN ClientOut(answered, FALSE, sent)
        ELSE ClientOut([answered EXCEPT !.currentUser = Null, !.authToken = Null],
                       FALSE, sent)

logout(c, answer) ==
    LET sent == c.authToken # Null /\ Truthy(c.authToken)
        answered == ResponseInterceptor(c, IF sent THEN answer ELSE "ok")
    IN  ClientOut([answered EXCEPT !.currentUser = Null, !.authToken = Null],
                  FALSE, sent)

\* the last step taken: the method, its arguments, the service's answer,
\* and whether the client was authenticated before it
ClientStep(op, method, token, answer, r) ==
    [op |-> op, method |-> method, token |-> token, answer |-> answer,
     threw |-> r.threw, sent |-> r.sent, preAuth |-> ChittyIDIsAuthenticated(client)]

InitClient ==
    /\ input = <<>>
    /\ result = NoResult
    /\ now = 0
    /\ maxRequests = 1
    /\ windowMs = 1
    /\ requests = <<>>
    /\ admitted = <<>>
    /\ last = [client |-> "", time |-> 0, allowed |-> TRUE, before |-> <<>>]
    /\ entry = "client"
    /\ adapters = <<>>
    /\ secure = <<>>
    /\ authStore = <<>>
    /\ flights = <<>>
    /\ client = NewClient
    /\ call = ClientStep("none", "none", <<>>, "none", ClientOut(NewClient, FALSE, FALSE))

ClientDone(op, method, token, answer, r) ==
    /\ client' = r.client
    /\ call' = ClientStep(op, method, IF r.sent THEN token ELSE <<>>,
                          IF r.sent THEN answer ELSE "none", r)
    /\ UNCHANGED <<validateVars, now, limiterVars, entry, adapters, secure, authStore,
                   flights>>

ClientAuthenticate ==
    /\ entry = "client"
    /\ \E method \in AuthMethods \cup {"other"}, token \in ClientTokens,
          answer \in ServiceAnswers :
          ClientDone("authenticate", method, token, answer,
                     ChittyIDAuthenticate(client, method, token, answer))

ClientGetUser ==
    /\ entry = "client"
    /\ \E answer \in ServiceAnswers :
          ClientDone("getUser", "none", <<>>, answer, getUser(client, answer))

\* the second request is answered only if it is made
ClientConnectPlatform ==
    /\ entry = "client"
    /\ \E answers \in [1..2 -> ServiceAnswers] :
          /\ (answers[1] # "ok" \/ client.currentUser = Null) => answers[2] = "ok"
          /\ ClientDone("connectPlatform", "none", <<>>,
                        IF answers[1] # "ok" THEN answers[1] ELSE answers[2],
                        connectPlatform(client, answers))

ClientLogout ==
    /\ entry = "client"
    /\ \E answer \in ServiceAnswers :
          ClientDone("logout", "none", <<>>, answer, logout(client, answer))

NextClient ==
    \/ ClientAuthenticate
    \/ ClientGetUser
    \/ ClientConnectPlatform
    \/ ClientLogout

SpecClient == InitClient /\ [][NextClient]_vars

-----------------------------------------------------------------------------
(* Properties: project-name validation (SpecValidate) *)

\* ^[A-Za-z0-9_-]{1,100}$ over the alphabet of the model
MatchesProjectName(s) ==
    /\ IsString(s)
    /\ Len(s) >= 1
    /\ Len(s) <= 100
    /\ \A i \in DOMAIN s : s[i] \in {"a", "Z", "0", "-", "_"}

NamesProjectName(error) == \E i \in DOMAIN error : error[i] = "project name"

Rejected == result # NoResult /\ ~result.success /\ NamesProjectName(result.error)

\* s without the characters < > ' " / \ CR LF TAB and without the white
\* space at its two ends
Cleaned(s) ==
    LET kept == SelectSeq(s, LAMBDA c : c \notin {"<", ">", "'", "\"", "/", "\\",
                                                   "\r", "\n", "\t"})
        solid == {i \in DOMAIN kept : kept[i] # " "}
    IN  IF solid = {} THEN <<>>
        ELSE SubSeq(kept, CHOOSE i \in solid : \A j \in solid : i <= j,
                          CHOOSE i \in solid : \A j \in solid : j <= i)

\* C7 as stated: every string that does not match ^[A-Za-z0-9_-]{1,100}$ is
\* rejected with an error naming "project name"
C7_RejectsEveryNonMatching ==
    (result # NoResult /\ ~MatchesProjectName(input)) => Rejected

\* C7 as amended: every string that, once the characters < > ' " / \ CR LF
\* TAB and the surrounding white space are removed, does not match
\* ^[A-Za-z0-9_-]{1,100}$ is rejected with an error naming "project name"
C7_RejectsNonMatchingAfterSanitizing ==
    (result # NoResult /\ ~MatchesProjectName(Cleaned(input))) => Rejected

\* a rejected input that carries a removed character and is still too long
\* without it
C7_Witness ==
    /\ Rejected
    /\ \E i \in DOMAIN input : input[i] = "<"
    /\ Len(Cleaned(input)) = 101

\* C8: a project name matching ^[A-Za-z0-9_-]{1,100}$ is accepted and the
\* data returned is the name itself
C8_ValidNameUnchanged ==
    (result # NoResult /\ MatchesProjectName(input))
        => result = [success |-> TRUE, data |-> input]

\* a valid name containing a hyphen and an underscore was validated
C8_Witness ==
    /\ result # NoResult
    /\ MatchesProjectName(input)
    /\ \E i \in DOMAIN input : input[i] = "-"
    /\ \E i \in DOMAIN input : input[i] = "_"
    /\ result.success

-----------------------------------------------------------------------------
(* Properties: rate limiter (SpecLimiter) *)

\* the calls of clientId the limiter admitted before its last call
AdmittedBefore(clientId) ==
    LET history == GetOrEmpty(admitted, clientId)
    IN  IF last.client = clientId /\ last.allowed
        THEN SubSeq(history, 1, Len(history) - 1)
        ELSE history

\* how many of the times in history lie in the interval [from, to]
CountIn(history, from, to) ==
    Cardinality({i \in DOMAIN history : from <= history[i] /\ history[i] <= to})

\* C2: a call is admitted exactly when fewer than maxRequests calls of its
\* client were admitted less than windowMs before it (so the call after
\* maxRequests admitted ones is rejected, and admitted again once windowMs
\* have passed since the earliest of them), and no client ever has more than
\* maxRequests admitted calls inside an interval of windowMs
C2_WindowAdmission ==
    /\ last.client # "" =>
          (last.allowed <=>
             CountIn(AdmittedBefore(last.client),
                     last.time - windowMs + 1, last.time) < maxRequests)
    /\ \A c \in DOMAIN admitted : \A t \in 0..MaxClock :
          CountIn(admitted[c], t, t + windowMs - 1) <= maxRequests

\* the limiter was full, and the call made exactly windowMs after the
\* earliest recorded one got that call's slot
C2_Witness ==
    /\ last.client # ""
    /\ last.allowed
    /\ Len(last.before) = maxRequests
    /\ last.time - last.before[1] = windowMs
    /\ CountIn(AdmittedBefore(last.client), last.time - windowMs + 1, last.time)
          = maxRequests - 1

-----------------------------------------------------------------------------
(* Properties: adapters and tools (Spec) *)

AuthenticationError(error) ==
    /\ error # <<>>
    /\ error[1] \in {"Not authenticated with ", "Not authenticated with Cloudflare",
                      "Not authenticated with Vercel", "Not authenticated with Railway"}

\* C1: deploy, getStatus and getDeployments called on an adapter whose
\* isAuthenticated() is false throw an authentication error and issue no
\* provider request
C1_AdapterAuthGating ==
    (/\ entry \in AdapterEntries
     /\ call.op \in {"deploy", "getStatus", "getDeployments"}
     /\ ~call.preAuth)
        => (/\ call.threw
            /\ AuthenticationError(call.error)
            /\ call.requests = <<>>)

\* C3: a tool of the secure server whose handler threw answers with an
\* error-flagged response carrying the message thrown, a tool whose handler
\* returned answers with the handler's response, and no call ends in a fault
\* raised to the transport
C3_DispatcherCatchesAll ==
    (entry = "secure" /\ call.op # "none")
        => (/\ call.response.kind = "result"
            /\ call.invoked =>
                  IF call.threw
                  THEN call.response = Response(TRUE, <<"Error: ">> \o call.error)
                  ELSE call.response = call.value)

\* a deploy whose provider request failed inside the adapter came back as an
\* error response
C3_Witness ==
    /\ entry = "secure"
    /\ call.op = "deploy"
    /\ call.invoked
    /\ call.threw
    /\ call.requests # <<>>
    /\ call.response.isError

\* C4: a tool call the rate limiter rejects answers with the fixed
\* error-flagged rate-limit text, and its handler does not run: no adapter
\* method is called and no provider request is issued
C4_RateLimitRejection ==
    (entry = "secure" /\ call.limited)
        => (/\ call.response =
                  Response(TRUE, <<"Rate limit exceeded. Please try again later.">>)
            /\ ~call.invoked
            /\ call.adapterCalls = <<>>
            /\ call.requests = <<>>)

\* a deploy on an authenticated platform was rejected by the rate limiter
C4_Witness ==
    /\ entry = "secure"
    /\ call.limited
    /\ call.op = "deploy"
    /\ call.preAuth
    /\ call.response.isError

Registered(platform) ==
    IF entry = "secure" THEN SecureRegistered(platform) ELSE IndexRegistered(platform)

\* C5: a tool called with a platform that has no registered adapter answers
\* with an error response containing "not supported", calls no adapter method
\* and issues no provider request
C5_UnsupportedPlatform ==
    (/\ entry \in {"index", "secure"}
     /\ call.op \in {"authenticate", "deploy", "deployment-status"}
     /\ ~Registered(call.platform)
     /\ ~call.limited)
        => (/\ call.response.kind = "result"
            /\ call.response.isError
            /\ \E i \in DOMAIN call.response.text :
                  call.response.text[i] = " not supported"
            /\ call.adapterCalls = <<>>
            /\ call.requests = <<>>)

\* C6: the project name a deploy tool call hands to adapter.deploy, and the
\* name in every provider request made for it, matches
\* ^[A-Za-z0-9_-]{1,100}$
C6_ProjectNameReachingAdapter ==
    (entry \in {"index", "secure"} /\ call.op = "deploy")
        => (/\ \A i \in DOMAIN call.adapterCalls :
                  MatchesProjectName(call.adapterCalls[i].name)
            /\ \A i \in DOMAIN call.requests :
                  \/ call.requests[i].name = <<>>
                  \/ MatchesProjectName(call.requests[i].name))

RequiredFieldsNonEmpty(a) ==
    /\ a.apiToken \notin {<<>>, Undefined}
    /\ a.platform = "cloudflare" => a.accountId \notin {<<>>, Undefined}

\* C9: after an authenticate call isAuthenticated() is true exactly when
\* that call returned true and the required credential fields are non-empty
C9_AuthenticatedIffLastSucceeded ==
    (entry \in AdapterEntries /\ call.op = "authenticate")
        => (isAuthenticated(adapters[call.platform])
              <=> (/\ ~call.threw
                   /\ call.value = BoolValue(TRUE)
                   /\ RequiredFieldsNonEmpty(adapters[call.platform])))

\* C10: the deploy and deployment-status tools called while the selected
\* adapter's isAuthenticated() is false answer with an error-flagged
\* response that has a text, call no adapter method and raise nothing to
\* the transport
C10_ToolAuthGating ==
    (/\ entry \in {"index", "secure"}
     /\ call.op \in {"deploy", "deployment-status"}
     /\ Registered(call.platform)
     /\ ~call.preAuth)
        => (/\ call.response.kind = "result"
            /\ call.response.isError
            /\ call.response.text # <<>>
            /\ call.adapterCalls = <<>>
            /\ call.requests = <<>>)

\* the index server's deploy tool was called with `authenticate` set on a
\* platform that is not authenticated
C10_Witness ==
    /\ entry = "index"
    /\ call.op = "deploy"
    /\ Registered(call.platform)
    /\ ~call.preAuth
    /\ call.response.isError
    /\ call.response.text[1] = "Authentication required for "

-----------------------------------------------------------------------------
(* Properties: the adapter methods (SpecOperations) *)

\* the operation has been applied
Done(op) == result # NoResult /\ input.op = op

\* the i-th provider request of the operation was issued and failed
FailedRequest(i) ==
    /\ i <= Len(result.requests)
    /\ ~(IF input.op = "getAnalytics" THEN input.ok[i] ELSE input.ok)

\* C11: an advisory operation never propagates a provider failure: when its
\* provider call fails, getCost returns 0, getAnalytics returns the all-zero
\* analytics record of the platform and project, and shareWithTeam completes
\* without raising
C11_AdvisoryFailureSwallowed ==
    /\ Done("getCost") /\ FailedRequest(1) =>
            ~result.threw /\ result.value = Zero
    /\ Done("getAnalytics") /\ FailedRequest(1) =>
            /\ ~result.threw
            /\ result.value = ZeroAnalytics(input.adapter.platform, input.projectName)
    /\ Done("shareWithTeam") /\ FailedRequest(1) => ~result.threw

\* what getAnalytics of a platform's adapter does for the cost-compare call
ComparedAnalytics(p) ==
    getAnalytics(input.registry[p], input.config.projectName, input.answers[p].ok,
                 input.answers[p].listing, input.answers[p].usage)

\* the response to cost-compare reports platform p inline
ReportedInline(p) ==
    LET text == result.response.text
    IN  IF ~isAuthenticated(input.registry[p])
        THEN Includes(text, NotAuthenticatedLine(p))
        ELSE IF ComparedAnalytics(p).threw
        THEN Includes(text, <<p, ": Error getting data - ">>)
        ELSE Includes(text, CostLines(p, ComparedAnalytics(p).value))

\* C12: cost-compare isolates per-platform failures: whatever the list of
\* platforms, the response is not error-flagged, has a warning line for every
\* listed platform whose adapter is not authenticated, an error line for every
\* one whose getAnalytics threw, and the cost, performance, build-time and
\* success-rate lines of every other listed platform
C12_CostCompareIsolatesFailures ==
    Done("cost-compare") =>
        /\ ~result.threw
        /\ result.response.kind = "result"
        /\ ~result.response.isError
        /\ \A i \in DOMAIN PlatformsOf(input.platforms) :
               IndexRegistered(PlatformsOf(input.platforms)[i]) =>
                   ReportedInline(PlatformsOf(input.platforms)[i])

\* a call with an unauthenticated platform before a healthy one in the list:
\* the warning line of the first and the figures of the second are both there
C12_Witness ==
    /\ Done("cost-compare")
    /\ input.platforms = <<"vercel", "railway">>
    /\ ~isAuthenticated(input.registry["vercel"])
    /\ isAuthenticated(input.registry["railway"])
    /\ Len(input.answers["railway"].listing) > 0
    /\ ~result.response.isError
    /\ Includes(result.response.text, <<"vercel", ": Not authenticated">>)
    /\ Includes(result.response.text, <<"railway", ":", " Estimated Cost: $">>)
    /\ Includes(result.response.text, <<" Success Rate: ", "100", "%">>)

\* the platforms list-deployments checks that have an adapter
CheckedPlatforms ==
    {p \in Platforms : \E i \in DOMAIN PlatformsToCheck(input.platform) :
                           PlatformsToCheck(input.platform)[i] = p}

\* what getDeployments of a platform's adapter does for the list-deployments call
ListedBy(p) ==
    getDeployments(input.registry[p], input.answers[p].ok, input.answers[p].listing,
                   input.answers[p].pages)

\* the number of deployments gathered from platform p that are not older than t
GatheredSince(p, t) ==
    IF p \in CheckedPlatforms /\ isAuthenticated(input.registry[p]) /\ ~ListedBy(p).threw
    THEN Cardinality({i \in DOMAIN ListedBy(p).value.items :
                         ListedBy(p).value.items[i].timestamp >= t})
    ELSE 0

AllGatheredSince(t) ==
    GatheredSince("cloudflare", t) + GatheredSince("vercel", t) + GatheredSince("railway", t)

\* the deployments the response to list-deployments lists
Shown ==
    ShownDeployments(ListDeploymentsLoop(input.registry, PlatformsToCheck(input.platform),
                                         input.answers).deployments,
                     LimitOf(input.limit))

VercelStatusOf(state) ==
    CASE state \in {"QUEUED", "INITIALIZING"} -> "pending"
      [] state = "BUILDING" -> "building"
      [] state = "READY" -> "ready"
      [] state = "ERROR" -> "error"
      [] state = "CANCELED" -> "canceled"
      [] OTHER -> "pending"

\* C14: getStatus of every Vercel adapter of the repository maps the provider
\* state onto the five-value enum: QUEUED and INITIALIZING to pending, BUILDING
\* to building, READY to ready, ERROR to error, CANCELED to canceled, any
\* other state to pending
C14_VercelStatusMapping ==
    /\ (Done("getStatus") \/ Done("secure getStatus"))
    /\ input.adapter.platform = "vercel"
    /\ ~result.threw
    => result.value.status = VercelStatusOf(input.view.state)

\* the status the specification assigns to a Railway deployment status
RailwayStatusOf(status) ==
    IF status \in {"INITIALIZING", "QUEUED"} THEN "pending"
    ELSE IF status \in {"BUILDING", "DEPLOYING"} THEN "building"
    ELSE IF status \in {"SUCCESS", "RUNNING"} THEN "ready"
    ELSE IF status \in {"FAILED", "CRASHED"} THEN "error"
    ELSE IF status = "REMOVED" THEN "canceled"
    ELSE "pending"

\* C15: the Railway adapter maps every provider status onto the five-value
\* enum in the same way in getStatus and in getDeployments: INITIALIZING and
\* QUEUED to pending, BUILDING and DEPLOYING to building, SUCCESS and RUNNING
\* to ready, FAILED and CRASHED to error, REMOVED to canceled, any other
\* status to pending
C15_RailwayStatusMapping ==
    /\ Done("getStatus") /\ input.adapter.platform = "railway" /\ ~result.threw =>
            /\ result.value.status \in StatusEnum
            /\ result.value.status = RailwayStatusOf(input.view.state)
    /\ Done("getDeployments") /\ input.adapter.platform = "railway" /\ ~result.threw =>
            /\ Len(result.value.items) = Len(input.listing)
            /\ \A i \in DOMAIN input.listing :
                   /\ result.value.items[i].status \in StatusEnum
                   /\ result.value.items[i].status = RailwayStatusOf(input.listing[i].state)

\* a listing with a status outside the provider's documented list
C15_Witness ==
    /\ Done("getDeployments")
    /\ input.adapter.platform = "railway"
    /\ ~result.threw
    /\ Len(input.listing) > 0
    /\ input.listing[1].state = "UNKNOWN"
    /\ result.value.items[1].status = "pending"

\* the script a Cloudflare deployment id `${projectName}-${Date.now()}` belongs to
OwningScript(deploymentId) ==
    LET dashes == {i \in DOMAIN deploymentId : deploymentId[i] = "-"}
    IN  IF dashes = {} THEN deploymentId
        ELSE SubSeq(deploymentId, 1, (CHOOSE i \in dashes : \A j \in dashes : j <= i) - 1)

\* C16: getStatus of every Cloudflare adapter queries the provider and returns
\* status ready if and only if the script of the deployment exists at the
\* provider, and error otherwise
C16_CloudflareStatusIsExistence ==
    /\ (Done("getStatus") \/ Done("secure getStatus"))
    /\ input.adapter.platform = "cloudflare"
    /\ ~result.threw
    => /\ Len(result.requests) > 0
       /\ result.value.status
              = IF OwningScript(input.deploymentId) \in input.view.scripts
                THEN "ready" ELSE "error"

\* the project name as a DNS label: upper-case letters lower-cased, every
\* character other than a letter, a digit or a hyphen replaced by a hyphen
DnsLabel(name) ==
    [i \in DOMAIN name |->
        CASE name[i] \in {"a", "0", "-"} -> name[i]
          [] name[i] = "Z" -> "z"
          [] OTHER -> "-"]

FirstChars(str, n) == [i \in 1..(IF Len(str) < n THEN Len(str) ELSE n) |-> str[i]]

\* a deploy of a Cloudflare adapter that is authenticated
CloudflareDeployDone ==
    /\ (Done("deploy") \/ Done("secure deploy"))
    /\ input.adapter.platform = "cloudflare"
    /\ input.adapter.authenticated

\* the configuration asks for a build
WantsPages ==
    /\ Done("deploy")
    /\ (Truthy(input.config.buildCommand) \/ Truthy(input.config.outputDirectory))

PagesEndpoints ==
    {"/accounts/:accountId/pages/projects/:name", "/accounts/:accountId/pages/projects",
     "/accounts/:accountId/pages/projects/:name/deployments"}

\* the sub-mode follows the shape of the configuration: with a build command
\* or output directory the project is looked up (and created if missing) and
\* a deployment is triggered, otherwise one script is uploaded
SubModeFollowsConfig ==
    CloudflareDeployDone =>
        IF WantsPages
        THEN /\ Len(result.requests) >= 1
             /\ \A i \in DOMAIN result.requests : result.requests[i].endpoint \in PagesEndpoints
             /\ result.requests[1].endpoint = "/accounts/:accountId/pages/projects/:name"
             /\ ~result.threw =>
                    result.requests[Len(result.requests)].endpoint
                        = "/accounts/:accountId/pages/projects/:name/deployments"
        ELSE /\ Len(result.requests) = 1
             /\ result.requests[1].method = "PUT"
             /\ result.requests[1].endpoint = "/accounts/:accountId/workers/scripts/:name"

\* C17 as stated: Cloudflare deploy takes the Pages path when buildCommand or
\* outputDirectory is present and the Worker path otherwise, and then for an
\* authenticated adapter and a valid project name the result has status ready
\* and URL https://<project name>.<first 8 characters of accountId>.workers.dev
C17_WorkerUrlIsProjectName ==
    /\ SubModeFollowsConfig
    /\ CloudflareDeployDone /\ ~WantsPages /\ ~result.threw
           /\ MatchesProjectName(input.config.projectName) =>
            /\ result.value.status = "ready"
            /\ result.value.url =
                   <<"https://">> \o input.config.projectName \o <<".">>
                       \o FirstChars(input.adapter.accountId, 8) \o <<".workers.dev">>

\* C17, amended: Cloudflare deploy takes the Pages path when buildCommand or
\* outputDirectory is present and the Worker path otherwise, and then for an
\* authenticated adapter and a valid project name the result has status ready
\* and URL https://<label>.<first 8 characters of accountId>.workers.dev,
\* where the label is the project name in lower case with every character
\* other than a-z, 0-9 and - replaced by -
C17_WorkerUrlIsNormalizedName ==
    /\ SubModeFollowsConfig
    /\ CloudflareDeployDone /\ ~WantsPages /\ ~result.threw
           /\ MatchesProjectName(input.config.projectName) =>
            /\ result.value.status = "ready"
            /\ result.value.url =
                   <<"https://">> \o DnsLabel(input.config.projectName) \o <<".">>
                       \o FirstChars(input.adapter.accountId, 8) \o <<".workers.dev">>

\* a Worker deployed for a project whose name is not its own label, on an
\* account whose id is longer than eight characters
C17_Witness ==
    /\ CloudflareDeployDone
    /\ ~WantsPages
    /\ ~result.threw
    /\ input.config.projectName = <<"Z", "_">>
    /\ Len(input.adapter.accountId) > 8
    /\ result.value.status = "ready"
    /\ result.value.url = <<"https://", "z", "-", ".">> \o Rep("0", 8) \o <<".workers.dev">>

\* credential maps with the fields of c whose values are well-formed secrets
Variants(c) ==
    {o \in CredentialsOver(Optional(Tokens), Optional(AccountIds), Optional(TeamIds)) :
        DOMAIN o = DOMAIN c}

\* the response of the authenticate tool in a run with other credentials
ResponseTo(credentials) ==
    IF input.op = "authenticate"
    THEN IndexAuthenticateHandler(FreshRegistry, input.platform, credentials,
                                  input.answer).response
    ELSE createSecureTool(TRUE, SecureAuthenticateHandler(FreshSecureRegistry,
                                    input.platform, credentials, input.answer)).response

\* C18: no response text contains a credential value given to authenticate:
\* two runs that differ only in the credential values (and in provider error
\* text that echoes them) return the same error message
C18_NoCredentialInResponse ==
    /\ (Done("authenticate") \/ Done("secure authenticate"))
    /\ input.credentials \in Variants(input.credentials)
    /\ result.response.isError
    => /\ \A k \in DOMAIN input.credentials :
              ~Includes(result.response.text, input.credentials[k])
       /\ \A other \in Variants(input.credentials) :
              ResponseTo(other).text = result.response.text

-----------------------------------------------------------------------------
(* Properties: rate limiter, rejected calls (SpecLimiter) *)

\* C19: a rejected isAllowed call records nothing: the history stored for the
\* client after a call that returned false is the history stored before it,
\* so the rejected call does not postpone the recovery of capacity
C19_RejectedCallRecordsNothing ==
    last.client # "" /\ ~last.allowed =>
        GetOrEmpty(requests, last.client) = last.before

\* a call rejected while the client's history was full, after the clock
\* had moved on from the recorded calls
C19_Witness ==
    /\ last.client # ""
    /\ ~last.allowed
    /\ Len(last.before) = maxRequests
    /\ last.time > last.before[Len(last.before)]
    /\ GetOrEmpty(requests, last.client) = last.before

-----------------------------------------------------------------------------
(* Properties: getTeamDeployments in progress (SpecTeam) *)

CredentialState(a) ==
    [apiToken |-> a.apiToken, accountId |-> a.accountId, teamId |-> a.teamId,
     authenticated |-> a.authenticated]

\* C20: the credential fields (apiToken, accountId, teamId) and the
\* authenticated flag of an adapter are written only by its own authenticate:
\* no step of another method changes them, not even for the time a provider
\* call is in flight
C20_OnlyAuthenticateWrites ==
    [][\A p \in Platforms :
          CredentialState(adapters'[p]) # CredentialState(adapters[p]) =>
              call'.op = "authenticate" /\ call'.platform = p]_vars

-----------------------------------------------------------------------------
(* C21 *)

\* a supplied credential value that is empty once sanitized
SuppliedEmpty(credentials) ==
    \E k \in DOMAIN credentials : sanitizeInput(credentials[k]) = <<>>

\* a field the platform requires that the caller did not supply
RequiredAbsent(platform, credentials) ==
    \/ "apiToken" \notin DOMAIN credentials
    \/ platform = "cloudflare" /\ "accountId" \notin DOMAIN credentials

\* the text of the first violation: the schema's check comes before the
\* required-field check
FirstViolation(platform, credentials) ==
    IF SuppliedEmpty(credentials) THEN <<"Credential values cannot be empty">>
    ELSE IF platform = "cloudflare" THEN <<"Cloudflare requires apiToken and accountId">>
    ELSE <<"Vercel requires apiToken">>

\* C21: in the secure server's adapters, authenticate with a credential value
\* that is empty after sanitization, or without a required field (apiToken;
\* accountId for Cloudflare), throws an error reporting the first violation,
\* stores none of the supplied values (apiToken, accountId and the HTTP client
\* keep what they held) and makes no provider request
C21_CredentialValidationAllOrNothing ==
    (/\ Done("secure adapter authenticate")
     /\ \/ SuppliedEmpty(input.credentials)
        \/ RequiredAbsent(input.adapter.platform, input.credentials))
    => /\ result.threw
       /\ Includes(result.error,
                   FirstViolation(input.adapter.platform, input.credentials))
       /\ result.adapter.apiToken = input.adapter.apiToken
       /\ result.adapter.accountId = input.adapter.accountId
       /\ result.adapter.api = input.adapter.api
       /\ result.requests = <<>>

\* an authenticated Cloudflare adapter is handed another token together with
\* an account id that is empty once sanitized, and keeps its token
C21_Witness ==
    /\ Done("secure adapter authenticate")
    /\ input.adapter.platform = "cloudflare"
    /\ input.adapter.authenticated
    /\ input.credentials = MakeCredentials(<<"Z">>, Stripped, Undefined)
    /\ result.threw
    /\ result.adapter.apiToken = <<"a">>

-----------------------------------------------------------------------------
(* C22 *)

SecureTools == {"ping", "help", "authenticate", "deploy", "deployment-status"}

\* the calls of any tool recorded less than windowMs ago
RecordedInWindow ==
    Cardinality({<<c, i>> \in UNION {{c} \X DOMAIN requests[c] : c \in DOMAIN requests} :
                    now - requests[c][i] < windowMs})

\* C22: the tools registered through the dispatcher share one rate-limit
\* identity: a call to any of ping, help, authenticate, deploy and
\* deployment-status is rejected exactly when maxRequests calls, of whatever
\* tools, were admitted inside the current window, and an admitted call of any
\* tool takes a slot of that one shared history
C22_ToolsShareOneQuota ==
    [][(entry = "secure" /\ now' = now) =>
          /\ call'.op \in SecureTools
          /\ call'.limited <=> RecordedInWindow >= maxRequests
          /\ ~call'.limited => RecordedInWindow' = RecordedInWindow + 1
          /\ call'.limited => requests' = requests
          /\ DOMAIN requests' \subseteq {"default"}]_vars

\* a ping is rejected at the instant at which the quota was used up by an
\* authenticate call and one other call
C22_Witness ==
    /\ entry = "secure"
    /\ call.op = "ping"
    /\ call.limited
    /\ now = 0
    /\ secure["vercel"].authenticated
    /\ Len(requests["default"]) = maxRequests

-----------------------------------------------------------------------------
(* C23 *)

\* C23: isAllowed purges only the timestamps strictly older than
\* now - windowMs: a request recorded exactly windowMs before the call still
\* counts, so a call that finds maxRequests recorded requests no older than
\* now - windowMs is rejected
C23_BoundaryStillCounted ==
    (/\ last.client # ""
     /\ CountIn(last.before, last.time - windowMs, last.time) >= maxRequests)
    => ~last.allowed

-----------------------------------------------------------------------------
(* C24 *)

\* C24: in every adapter, of either server, isAuthenticated() is false after
\* an authenticate call that threw (the provider call failed or, in the secure
\* server, the credentials were invalid), whether or not the adapter was
\* authenticated before the call
C24_ThrowingAuthenticateClearsFlag ==
    /\ (Done("adapter authenticate") /\ result.threw)
          => ~isAuthenticated(result.adapter)
    /\ (Done("secure adapter authenticate") /\ result.threw)
          => ~SecureIsAuthenticated(result.adapter)

\* an adapter that was authenticated is handed complete credentials, and the
\* verification request fails
C24_Witness ==
    /\ Done("adapter authenticate")
    /\ isAuthenticated(input.adapter)
    /\ isAuthenticated(StoreCredentials(input.adapter, input.credentials))
    /\ input.answer = "failed"
    /\ result.threw
    /\ result.requests # <<>>

-----------------------------------------------------------------------------
(* C25 *)

\* the getTeamDeployments calls made on the Vercel adapter
VercelFlights == {i \in DOMAIN flights : flights[i].platform = "vercel"}

\* no call is between its beginning and its end
NoneInFlight == \A i \in DOMAIN flights : flights[i].stage \in {"idle", "done"}

\* C25: however getTeamDeployments calls on one Vercel adapter interleave
\* (failing calls included), once all of them have completed the adapter's
\* teamId is the one it had before the first of them began, and the provider
\* request issued for one call never carries the teamId set by another call
C25_TeamContextIsolated ==
    /\ NoneInFlight =>
          \A i \in VercelFlights :
             (\A j \in VercelFlights : i <= j)
                => adapters["vercel"].teamId = flights[i].originalTeamId
    /\ \A i \in VercelFlights : \A j \in VercelFlights \ {i} :
          (/\ flights[i].stage \in {"sent", "done"}
           /\ flights[j].teamId # flights[i].teamId)
          => flights[i].request.teamId # flights[j].teamId

-----------------------------------------------------------------------------
(* C26 *)

\* C26: whenever the ChittyIDClient reports isAuthenticated(), its authToken
\* is the token under which its currentUser was obtained by a successful
\* authenticate; in particular an authenticate that throws never leaves the
\* client authenticated with a token that was not verified
C26_TokenMatchesUser ==
    ChittyIDIsAuthenticated(client) => client.currentUser = UserOf(client.authToken)

-----------------------------------------------------------------------------
(* C27 *)

\* C27: the index server's authStore never drifts from the adapters: in
\* every reachable state, a platform for which authStore holds credentials
\* has an adapter whose isAuthenticated() is true (and those credentials are
\* the ones the adapter holds: it last authenticated with them)
C27_AuthStoreFollowsAdapter ==
    entry = "index" =>
        \A p \in DOMAIN authStore :
           /\ isAuthenticated(adapters[p])
           /\ adapters[p] = [StoreCredentials(adapters[p], authStore[p])
                                 EXCEPT !.authenticated = TRUE]

-----------------------------------------------------------------------------
(* C28 *)

\* every stored history holds at most maxRequests timestamps
HistoryBounded == \A c \in DOMAIN requests : Len(requests[c]) <= maxRequests

\* every stored history is in non-decreasing order
HistoryOrdered ==
    \A c \in DOMAIN requests : \A i, j \in DOMAIN requests[c] :
       i <= j => requests[c][i] <= requests[c][j]

\* a call changes neither the history of a client other than the caller nor
\* what isAllowed would answer that client
OthersUntouched ==
    \A c \in Clients :
       (last' # last /\ last'.client # c) =>
           /\ GetOrEmpty(requests', c) = GetOrEmpty(requests, c)
           /\ isAllowedResult(c)' = isAllowedResult(c)

\* C28: after any sequence of isAllowed calls at non-decreasing clock values
\* every client's stored history holds at most maxRequests timestamps in
\* non-decreasing order, and a call for one client never changes another
\* client's history or admission outcome
C28_HistoryInvariant ==
    /\ [](HistoryBounded /\ HistoryOrdered)
    /\ [][now' = now => OthersUntouched]_vars

\* one client's history is full with calls made at different times and its
\* call is rejected, while another client holds a history of its own
C28_Witness ==
    /\ entry = "limiter"
    /\ maxRequests >= 2
    /\ \E c \in DOMAIN requests : \E d \in DOMAIN requests \ {c} :
          /\ Len(requests[c]) = maxRequests
          /\ requests[c][1] < requests[c][2]
          /\ Len(requests[d]) >= 1
          /\ last.client = c
          /\ ~last.allowed

-----------------------------------------------------------------------------
(* C29 *)

\* C29: in the secure server's Cloudflare and Vercel adapters,
\* authenticated = true implies in every reachable state that the HTTP client
\* (api) has been created and the required credential fields (apiToken;
\* accountId for Cloudflare) are non-empty, so that deploy and getStatus
\* reached through the tools never use a null client
C29_AuthenticatedHasClient ==
    entry = "secure" =>
        /\ \A p \in SecurePlatforms :
              secure[p].authenticated =>
                  /\ secure[p].api # Null
                  /\ Truthy(secure[p].apiToken)
                  /\ p = "cloudflare" => Truthy(secure[p].accountId)
        /\ call.op \in {"deploy", "deployment-status"} =>
              /\ ~Includes(call.error, NullApiError)
              /\ ~Includes(call.response.text, NullApiError)

\* the deployment-status tool read a deployment through the client of the
\* authenticated Vercel adapter
C29_Witness ==
    /\ entry = "secure"
    /\ call.op = "deployment-status"
    /\ call.platform = "vercel"
    /\ call.preAuth
    /\ call.invoked
    /\ ~call.threw
    /\ Len(call.requests) = 1
    /\ call.requests[1].auth # Null

-----------------------------------------------------------------------------
(* C30 *)

\* C30: logout never throws and always ends with currentUser and authToken
\* cleared, so that isAuthenticated() is false, whether the logout request
\* succeeded, failed or was not sent
C30_LogoutAlwaysClears ==
    call.op = "logout" =>
        /\ ~call.threw
        /\ client.currentUser = Null
        /\ client.authToken = Null
        /\ ~ChittyIDIsAuthenticated(client)

\* an authenticated client logs out and the logout request fails
C30_Witness ==
    /\ call.op = "logout"
    /\ call.preAuth
    /\ call.sent
    /\ call.answer = "failed"
    /\ ~ChittyIDIsAuthenticated(client)

=============================================================================
